---- MODULE Spec2Model ----
(***************************************************************************)
(* A model of Tor10's UniTensor (src/Tor10/UniTensor.py): bonds carrying   *)
(* quantum numbers, the block index built by the constructor, PutBlock /   *)
(* GetBlock, CombineBonds and Contract.                                    *)
(*                                                                         *)
(* Conventions.  Python indexes from 0, TLA+ sequences from 1: an axis     *)
(* (or a combined row / column) that the source calls k is position k+1    *)
(* here.  N_inbond is a count, so it is the same number in both.  A bond   *)
(* without symmetry has qnums = None in the source and qnums = <<>> here   *)
(* (a bond has dim >= 1, so a symmetric bond never has empty qnums).  A    *)
(* numeric buffer is a record [shape, data] with data in row-major order.  *)
(***************************************************************************)
EXTENDS Integers, Sequences, FiniteSets, TLC

VARIABLES
    t,        \* the tensor the in-place operations act on (operand a)
    b,        \* the second operand of Contract
    res,      \* what the last call returned (GetBlock, Contract, a + b, Svd, Qr)
    err,      \* TRUE iff the last call raised
    op,       \* the last call: its name and its arguments
    pre,      \* the value of t before the last call
    lastput,  \* the last PutBlock call made on t: its block, qnum, outcome
    mem       \* the objects t, b and res hold: Bond objects, labels, storage

vars == <<t, b, res, err, op, pre, lastput, mem>>

\* ------------------------------------------------------------------ bounds
MaxRank  == 3      \* most bonds of a tensor
MaxDim   == 2      \* largest dimension of a bond
MaxNsym  == 2      \* most symmetry channels of a bond
MaxCells == 6      \* most quantum-number entries over all bonds of a tensor
MaxVal   == 2      \* largest entry of a block handed to PutBlock

MaxElems == 4      \* most entries of a tensor without symmetry
MaxContractCells == 5   \* largest sum of the dimensions of the two operands of Contract
MaxInitCells == 3       \* most cells (dimension times channels) over the bonds given to the constructor
MaxResultRank == 5      \* largest sum of the ranks of two filled operands of Contract

QnumValues == {0, 1}          \* per-channel quantum numbers given to bonds

\* ----------------------------------------------------------------- helpers
RECURSIVE Prod(_)
Prod(s) == IF s = <<>> THEN 1 ELSE Head(s) * Prod(Tail(s))

RECURSIVE SumSeq(_)
SumSeq(s) == IF s = <<>> THEN 0 ELSE Head(s) + SumSeq(Tail(s))

RangeOf(s) == {s[i] : i \in DOMAIN s}

\* the Python slice s[:n]: all of s when n exceeds its length
Take(s, n) == SubSeq(s, 1, IF n < Len(s) THEN n ELSE Len(s))

\* the elements of a set of integers, ascending
RECURSIVE Ascending(_)
Ascending(S) ==
    IF S = {} THEN <<>>
    ELSE LET m == CHOOSE x \in S : \A y \in S : x <= y
         IN  <<m>> \o Ascending(S \ {m})

\* s[p[1]], s[p[2]], ... (numpy fancy indexing s[p])
Pick(s, p) == [k \in 1..Len(p) |-> s[p[k]]]

\* lexicographic order on vectors of one length, channel 1 most significant
LexLess(x, y) ==
    \E k \in 1..Len(x) : x[k] < y[k] /\ \A j \in 1..(k - 1) : x[j] = y[j]

\* the vectors of a set, in ascending lexicographic order
RECURSIVE LexAscending(_)
LexAscending(S) ==
    IF S = {} THEN <<>>
    ELSE LET m == CHOOSE x \in S : \A y \in S : x = y \/ LexLess(x, y)
         IN  <<m>> \o LexAscending(S \ {m})

\* ------------------------------------------------------------------- Bond
None == <<>>

Bond(dim) == [dim |-> dim, qnums |-> None]

SymBond(qnums) == [dim |-> Len(qnums), qnums |-> qnums]

nsym(bd) == Len(bd.qnums[1])

\* Bond.combine with one bond: the Kronecker composition, the earlier bond
\* varying slower; quantum numbers add channel by channel.
combine(A, B) ==
    [dim   |-> A.dim * B.dim,
     qnums |-> IF A.qnums = None THEN None
               ELSE [k \in 1..(A.dim * B.dim) |->
                       LET i == ((k - 1) \div B.dim) + 1
                           j == ((k - 1) % B.dim) + 1
                       IN  [n \in 1..Len(A.qnums[i]) |->
                              A.qnums[i][n] + B.qnums[j][n]]]]

\* Bond.combine with a list of bonds: left-associative
RECURSIVE combineAll(_, _)
combineAll(A, bds) ==
    IF bds = <<>> THEN A ELSE combineAll(combine(A, Head(bds)), Tail(bds))

GetUniqueQnums(bd) == {bd.qnums[i] : i \in 1..Len(bd.qnums)}

\* the common rows of two sets of quantum-number vectors, sorted
fx_GetCommRows(A, B) == LexAscending(A \cap B)

\* --------------------------------------------------------------- buffers
Buf(shape, data) == [shape |-> shape, data |-> data]

zeros(shape) == Buf(shape, [k \in 1..Prod(shape) |-> 0])

NoBuf == Buf(<<>>, <<>>)

\* ------------------------------------------------------------- UniTensor
NoTensor ==
    [bonds |-> <<>>, labels |-> <<>>, N_inbond |-> 0,
     is_diag |-> FALSE, is_blockform |-> FALSE, Storage |-> NoBuf,
     BlockMapper_in |-> <<>>, BlockMapper_out |-> <<>>, BlockQnums |-> <<>>]

rank(T) == Len(T.bonds)

IsSym(T) == T.bonds[1].qnums # None

\* np.arange(n)
arange(n) == [k \in 1..n |-> k - 1]

\* a slip: the rows left in ascending order
SortQnumsAscending(qnums) == SortSeq(qnums, LAMBDA x, y : LexLess(x, y))

\* np.lexsort(qnums.T[::-1])[::-1] applied to qnums: the rows in descending
\* lexicographic order, channel 1 most significant
SortQnums(qnums) == SortSeq(qnums, LAMBDA x, y : LexLess(y, x))

\* UniTensor.GetTotalQnums, for a tensor with 0 < N_inbond < rank
cb_inbonds(T) == combineAll(T.bonds[1], SubSeq(T.bonds, 2, T.N_inbond))

cb_outbonds(T) ==
    combineAll(T.bonds[T.N_inbond + 1], SubSeq(T.bonds, T.N_inbond + 2, rank(T)))

GetTotalQnumsRaises(T) ==
    \/ ~IsSym(T)
    \/ T.N_inbond = 0
    \/ T.N_inbond = rank(T)

\* np.where((qnums == q).all(axis=1))[0]
WhereAll(qnums, q) ==
    Ascending({r \in 1..Len(qnums) : \A n \in 1..Len(q) : qnums[r][n] = q[n]})

\* ---------------------------------------------- UniTensor.__init__
HasDuplicate(s) == \E i, j \in DOMAIN s : i # j /\ s[i] = s[j]

\* a slip: the test for duplicate labels left out
InitCheckRaisesNoDup(bonds, N_inbond, labels, is_diag, is_blockform) ==
    IF is_blockform /\ is_diag THEN TRUE
    ELSE IF Len(bonds) > 0 /\ (N_inbond < 0 \/ N_inbond > Len(bonds)) THEN TRUE
    ELSE IF Len(labels) # Len(bonds) THEN TRUE
    ELSE IF is_diag /\ (\/ Len(labels) # 2
                        \/ N_inbond # 1
                        \/ bonds[1].dim # bonds[2].dim) THEN TRUE
    ELSE IF ~is_diag /\ is_blockform
            /\ (\/ N_inbond < 1
                \/ Len(bonds) - N_inbond < 1
                \/ bonds[1].qnums = None) THEN TRUE
    ELSE IF Cardinality({bonds[i].qnums = None : i \in DOMAIN bonds}) # 1 THEN TRUE
    ELSE IF bonds[1].qnums # None
            /\ Cardinality({nsym(bonds[i]) : i \in DOMAIN bonds}) # 1 THEN TRUE
    ELSE FALSE

\* the checks of the constructor (check=True), in the order of the source
InitCheckRaises(bonds, N_inbond, labels, is_diag, is_blockform) ==
    IF is_blockform /\ is_diag THEN TRUE
    ELSE IF Len(bonds) > 0 /\ (N_inbond < 0 \/ N_inbond > Len(bonds)) THEN TRUE
    ELSE IF Len(labels) # Len(bonds) THEN TRUE
    ELSE IF HasDuplicate(labels) THEN TRUE
    ELSE IF is_diag /\ (\/ Len(labels) # 2
                        \/ N_inbond # 1
                        \/ bonds[1].dim # bonds[2].dim) THEN TRUE
    ELSE IF ~is_diag /\ is_blockform
            /\ (\/ N_inbond < 1
                \/ Len(bonds) - N_inbond < 1
                \/ bonds[1].qnums = None) THEN TRUE
    ELSE IF Cardinality({bonds[i].qnums = None : i \in DOMAIN bonds}) # 1 THEN TRUE
    ELSE IF bonds[1].qnums # None
            /\ Cardinality({nsym(bonds[i]) : i \in DOMAIN bonds}) # 1 THEN TRUE
    ELSE FALSE

\* the block-form branch sorts the quantum numbers of every bond
SortBonds(bonds) ==
    [i \in DOMAIN bonds |->
        [dim |-> bonds[i].dim, qnums |-> SortQnums(bonds[i].qnums)]]

\* a slip: the sectors taken from the combined in-bond alone
CommonQnumsInOnly(T) == LexAscending(GetUniqueQnums(cb_inbonds(T)))

\* the sectors of a block-form tensor: C in the constructor
CommonQnums(T) ==
    fx_GetCommRows(GetUniqueQnums(cb_inbonds(T)), GetUniqueQnums(cb_outbonds(T)))

\* a slip: .any(axis=1) for .all(axis=1), a row matching in some channel
BlockIndexAny(cb, q) ==
    Ascending({r \in 1..Len(cb.qnums) :
                 \E n \in 1..Len(q) : cb.qnums[r][n] = q[n]})

\* idx_in / idx_out of the constructor
BlockIndex(cb, q) == WhereAll(cb.qnums, q)

\* the block loop of the constructor
BuildBlocks(T) ==
    LET C == CommonQnums(T)
        tqin  == cb_inbonds(T)
        tqout == cb_outbonds(T)
    IN  [T EXCEPT
          !.Storage = [blk \in DOMAIN C |->
                         zeros(<<Len(BlockIndex(tqin, C[blk])),
                                 Len(BlockIndex(tqout, C[blk]))>>)],
          !.BlockMapper_in  = [blk \in DOMAIN C |-> BlockIndex(tqin, C[blk])],
          !.BlockMapper_out = [blk \in DOMAIN C |-> BlockIndex(tqout, C[blk])],
          !.BlockQnums      = C]

\* the fields set before the storage is made
InitFields(bonds, N_inbond, labels, is_diag, is_blockform) ==
    [NoTensor EXCEPT !.bonds = bonds, !.N_inbond = N_inbond, !.labels = labels,
                     !.is_diag = is_diag, !.is_blockform = is_blockform]

\* a slip: the test for an empty set of sectors left out
InitNoBlockNever(bonds, N_inbond, labels, is_diag, is_blockform) == FALSE

\* raised by the storage branch: a block-form tensor without any sector
InitNoBlock(bonds, N_inbond, labels, is_diag, is_blockform) ==
    /\ ~is_diag
    /\ is_blockform
    /\ CommonQnums(InitFields(SortBonds(bonds), N_inbond, labels,
                              is_diag, is_blockform)) = <<>>

InitRaises(bonds, N_inbond, labels, is_diag, is_blockform) ==
    \/ InitCheckRaises(bonds, N_inbond, labels, is_diag, is_blockform)
    \/ InitNoBlock(bonds, N_inbond, labels, is_diag, is_blockform)

\* the tensor the constructor makes (torch_tensor=None), when it does not raise
UniTensor(bonds, N_inbond, labels, is_diag, is_blockform) ==
    IF is_diag THEN
        [InitFields(bonds, N_inbond, labels, is_diag, is_blockform)
            EXCEPT !.Storage = zeros(<<bonds[1].dim>>)]
    ELSE IF is_blockform THEN
        BuildBlocks(InitFields(SortBonds(bonds), N_inbond, labels,
                               is_diag, is_blockform))
    ELSE
        [InitFields(bonds, N_inbond, labels, is_diag, is_blockform)
            EXCEPT !.Storage = zeros([i \in DOMAIN bonds |-> bonds[i].dim])]

\* UniTensor(bonds=[Bond(r), Bond(c)], N_inbond=1, labels=[1,2],
\*           torch_tensor=buf, check=False)
Rank2Tensor(buf) ==
    [NoTensor EXCEPT !.bonds = <<Bond(buf.shape[1]), Bond(buf.shape[2])>>,
                     !.N_inbond = 1, !.labels = <<1, 2>>, !.Storage = buf]

\* ------------------------------------------- the dense numeric backend
\* buf.reshape(np.prod(shape[:N]), -1)
Reshape2D(buf, N) ==
    LET P == Prod(Take(buf.shape, N))
    IN  Buf(<<P, Len(buf.data) \div P>>, buf.data)

\* buf.reshape(*shape), buf.view(shape)
reshape(buf, shape) == Buf(shape, buf.data)

\* the indices of np.ix_(i_in, i_out) lie inside the 2-D buffer
IxInBounds(buf, i_in, i_out) ==
    /\ \A k \in DOMAIN i_in : i_in[k] <= buf.shape[1]
    /\ \A k \in DOMAIN i_out : i_out[k] <= buf.shape[2]

\* buf[np.ix_(i_in, i_out)]: the rows i_in crossed with the columns i_out
IxGet(buf, i_in, i_out) ==
    Buf(<<Len(i_in), Len(i_out)>>,
        [k \in 1..(Len(i_in) * Len(i_out)) |->
            LET r == ((k - 1) \div Len(i_out)) + 1
                c == ((k - 1) % Len(i_out)) + 1
            IN  buf.data[(i_in[r] - 1) * buf.shape[2] + i_out[c]]])

\* a value of shape vshape can be broadcast to shape (r, c)
Broadcastable(vshape, r, c) ==
    CASE Len(vshape) = 1 -> vshape[1] \in {1, c}
      [] Len(vshape) = 2 -> vshape[1] \in {1, r} /\ vshape[2] \in {1, c}
      [] OTHER -> FALSE

\* the entry that broadcasting val to (r, c) puts at row i, column j
BroadcastAt(val, i, j) ==
    IF Len(val.shape) = 1
    THEN val.data[IF val.shape[1] = 1 THEN 1 ELSE j]
    ELSE val.data[(IF val.shape[1] = 1 THEN 0 ELSE i - 1) * val.shape[2]
                  + (IF val.shape[2] = 1 THEN 1 ELSE j)]

\* the position of x in the sequence s of distinct elements
IndexOf(s, x) == CHOOSE k \in DOMAIN s : s[k] = x

\* a slip: the entries outside the rows and columns cleared
IxPutCleared(buf, i_in, i_out, val) ==
    Buf(buf.shape,
        [k \in DOMAIN buf.data |->
            LET r == ((k - 1) \div buf.shape[2]) + 1
                c == ((k - 1) % buf.shape[2]) + 1
            IN  IF r \in RangeOf(i_in) /\ c \in RangeOf(i_out)
                THEN BroadcastAt(val, IndexOf(i_in, r), IndexOf(i_out, c))
                ELSE 0])

\* buf[np.ix_(i_in, i_out)] = val
IxPut(buf, i_in, i_out, val) ==
    Buf(buf.shape,
        [k \in DOMAIN buf.data |->
            LET r == ((k - 1) \div buf.shape[2]) + 1
                c == ((k - 1) % buf.shape[2]) + 1
            IN  IF r \in RangeOf(i_in) /\ c \in RangeOf(i_out)
                THEN BroadcastAt(val, IndexOf(i_in, r), IndexOf(i_out, c))
                ELSE buf.data[k]])

\* the multi-index of the flat position k (counted from 0) in a buffer of
\* the given shape, and the flat position of a multi-index
RECURSIVE Unravel(_, _)
Unravel(k, shape) ==
    IF shape = <<>> THEN <<>>
    ELSE <<(k \div Prod(Tail(shape))) + 1>>
         \o Unravel(k % Prod(Tail(shape)), Tail(shape))

RECURSIVE Ravel(_, _)
Ravel(m, shape) ==
    IF m = <<>> THEN 0
    ELSE (Head(m) - 1) * Prod(Tail(shape)) + Ravel(Tail(m), Tail(shape))

\* buf[m] for a multi-index m
At(buf, m) == buf.data[Ravel(m, buf.shape) + 1]

\* a slip: the inverse permutation, axis mapper[k] of the result is axis k
permuteInverse(buf, mapper) ==
    LET shape == [k \in DOMAIN mapper |-> buf.shape[IndexOf(mapper, k)]]
    IN  Buf(shape,
            [k \in 1..Len(buf.data) |->
                LET m == Unravel(k - 1, shape)
                IN  At(buf, [i \in DOMAIN buf.shape |-> m[mapper[i]]])])

\* buf.permute(mapper).contiguous(): axis k of the result is axis mapper[k]
permute(buf, mapper) ==
    LET shape == Pick(buf.shape, mapper)
    IN  Buf(shape,
            [k \in 1..Len(buf.data) |->
                LET m == Unravel(k - 1, shape)
                IN  At(buf, [i \in DOMAIN buf.shape |-> m[IndexOf(mapper, i)]])])

\* --------------------------------------------------- PutBlock / GetBlock
\* i_in / i_out of the dense branch: the channel-0 filter intersected with
\* the filters of the other channels
RECURSIVE FilterChannels(_, _, _, _)
FilterChannels(qnums, qnum, n, acc) ==
    IF n > Len(qnum) THEN acc
    ELSE FilterChannels(qnums, qnum, n + 1,
                        acc \cap {r \in 1..Len(qnums) : qnums[r][n] = qnum[n]})

\* a slip: the loop over the other channels left out
QnumIndexFirstChannel(cb, qnum) ==
    Ascending({r \in 1..Len(cb.qnums) : cb.qnums[r][1] = qnum[1]})

QnumIndex(cb, qnum) ==
    Ascending(FilterChannels(cb.qnums, qnum, 2,
                             {r \in 1..Len(cb.qnums) : cb.qnums[r][1] = qnum[1]}))

\* `np.array(qnum) == self._BlockQnums[s]` used as a condition: an array of
\* more than one truth value has no truth value, and the test itself raises
QnumTestRaises(qnum) == Len(qnum) > 1

\* the blocks whose quantum number the test accepts
MatchingBlocks(T, qnum) ==
    {s \in DOMAIN T.BlockQnums : T.BlockQnums[s][1] = qnum[1]}

FirstOf(S) == CHOOSE x \in S : \A y \in S : x <= y

Raise(T) == [raised |-> TRUE, T |-> T]
Done(T)  == [raised |-> FALSE, T |-> T]

\* PutBlock on a block-form tensor
PutBlockBlockform(T, block, qnum) ==
    IF QnumTestRaises(qnum) THEN Raise(T)
    ELSE IF MatchingBlocks(T, qnum) = {} THEN Raise(T)
    ELSE LET s == FirstOf(MatchingBlocks(T, qnum))
         IN  CASE block.type = "ndarray" ->
                    IF block.Storage.shape # T.Storage[s].shape THEN Raise(T)
                    ELSE Done([T EXCEPT !.Storage[s] = block.Storage])
               \* self.Storage.__class__ is list here; a list has no shape
               [] block.type = "list" -> Raise(T)
               [] block.type = "UniTensor" ->
                    IF block.is_blockform THEN Raise(T)
                    ELSE IF T.Storage[s].shape # block.Storage.shape THEN Raise(T)
                    ELSE Done([T EXCEPT !.Storage[s] = block.Storage])
               [] OTHER -> Raise(T)

\* PutBlock on a dense tensor with quantum numbers
PutBlockDense(T, block, qnum) ==
    IF T.N_inbond = 0 \/ T.N_inbond = rank(T) THEN Raise(T)
    ELSE LET i_in  == QnumIndex(cb_inbonds(T), qnum)
             i_out == QnumIndex(cb_outbonds(T), qnum)
             ori_shape == T.Storage.shape
             flat  == Reshape2D(T.Storage, T.N_inbond)
             T2    == [T EXCEPT !.Storage = flat]
         IN  IF i_in = <<>> THEN Raise(T)
             ELSE IF i_out = <<>> THEN Raise(T)
             ELSE IF block.type = "UniTensor" /\ block.is_blockform THEN Raise(T2)
             ELSE IF block.type \notin {"ndarray", "Tensor", "UniTensor"} THEN Raise(T2)
             ELSE IF ~IxInBounds(flat, i_in, i_out) THEN Raise(T2)
             ELSE IF ~Broadcastable(block.Storage.shape, Len(i_in), Len(i_out))
                  THEN Raise(T2)
             ELSE Done([T EXCEPT !.Storage =
                          reshape(IxPut(flat, i_in, i_out, block.Storage), ori_shape)])

\* a slip: the test for a diagonal tensor left out
PutBlockNoDiagTest(T, block, qnum) ==
    IF ~IsSym(T) THEN Raise(T)
    ELSE IF Len(qnum) # nsym(T.bonds[1]) THEN Raise(T)
    ELSE IF T.is_blockform THEN PutBlockBlockform(T, block, qnum)
    ELSE PutBlockDense(T, block, qnum)

\* a.PutBlock(block, *qnum)
PutBlock(T, block, qnum) ==
    IF ~IsSym(T) THEN Raise(T)
    ELSE IF Len(qnum) # nsym(T.bonds[1]) THEN Raise(T)
    ELSE IF T.is_diag THEN Raise(T)
    ELSE IF T.is_blockform THEN PutBlockBlockform(T, block, qnum)
    ELSE PutBlockDense(T, block, qnum)

Fail == [raised |-> TRUE, out |-> NoTensor]
Return(T) == [raised |-> FALSE, out |-> T]

GetBlockBlockform(T, qnum) ==
    IF QnumTestRaises(qnum) THEN Fail
    ELSE IF MatchingBlocks(T, qnum) = {} THEN Fail
    ELSE Return(Rank2Tensor(T.Storage[FirstOf(MatchingBlocks(T, qnum))]))

GetBlockDense(T, qnum) ==
    IF T.N_inbond = 0 \/ T.N_inbond = rank(T) THEN Fail
    ELSE LET i_in  == QnumIndex(cb_inbonds(T), qnum)
             i_out == QnumIndex(cb_outbonds(T), qnum)
             flat  == Reshape2D(T.Storage, T.N_inbond)
         IN  IF i_in = <<>> THEN Fail
             ELSE IF i_out = <<>> THEN Fail
             ELSE IF ~IxInBounds(flat, i_in, i_out) THEN Fail
             ELSE Return(Rank2Tensor(IxGet(flat, i_in, i_out)))

GetBlock(T, qnum) ==
    IF T.is_diag THEN Fail
    ELSE IF ~IsSym(T) THEN Return(T)
    ELSE IF Len(qnum) # nsym(T.bonds[1]) THEN Fail
    ELSE IF T.is_blockform THEN GetBlockBlockform(T, qnum)
    ELSE GetBlockDense(T, qnum)

\* ------------------------------------------------------------- SetElem
\* a.SetElem(elem), elem a list or an array
SetElem(T, elem) ==
    IF T.is_blockform THEN Raise(T)      \* a list has no numel()
    ELSE IF Len(elem) # Len(T.Storage.data) THEN Raise(T)
    ELSE IF IsSym(T) THEN Raise(T)
    ELSE Done([T EXCEPT !.Storage = Buf(T.Storage.shape, elem)])

\* -------------------------------------------------- SetLabel, SetLabels
\* a.SetLabel(newLabel, idx); idx counts the bonds from 1
SetLabel(T, newLabel, idx) ==
    IF ~(idx <= Len(T.labels)) THEN Raise(T)
    ELSE IF newLabel \in RangeOf(T.labels) THEN Raise(T)
    ELSE Done([T EXCEPT !.labels[idx] = newLabel])

\* a.SetLabels(newlabels)
SetLabels(T, newlabels) ==
    IF Len(newlabels) # Len(T.labels) THEN Raise(T)
    ELSE IF HasDuplicate(newlabels) THEN Raise(T)
    ELSE Done([T EXCEPT !.labels = newlabels])

\* ------------------------------------------------------ Permute, Reshape
\* the first position of x in s (the index a dict or intersect1d gives)
FirstIndex(s, x) == CHOOSE k \in DOMAIN s : s[k] = x /\ \A j \in 1..(k - 1) : s[j] # x

\* torch's permute refuses a list that is not a permutation of the axes
PermuteRaises(buf, mapper) ==
    \/ Len(mapper) # Len(buf.shape)
    \/ HasDuplicate(mapper)
    \/ \E k \in DOMAIN mapper : mapper[k] \notin 1..Len(buf.shape)

\* a.Permute(mapper, N_inbond, by_label)
Permute(T, mapper, N_inbond, by_label) ==
    IF T.is_diag THEN Raise(T)
    ELSE IF T.is_blockform THEN Raise(T)
    ELSE IF by_label THEN
        IF \E k \in DOMAIN mapper : mapper[k] \notin RangeOf(T.labels) THEN Raise(T)
        ELSE LET new_mapper == [k \in DOMAIN mapper |-> FirstIndex(T.labels, mapper[k])]
             IN  IF PermuteRaises(T.Storage, new_mapper) THEN Raise(T)
                 ELSE Done([T EXCEPT !.Storage = permute(T.Storage, new_mapper),
                                     !.labels = mapper,
                                     !.bonds = Pick(T.bonds, new_mapper),
                                     !.N_inbond = N_inbond])
    ELSE IF PermuteRaises(T.Storage, mapper) THEN Raise(T)
    ELSE Done([T EXCEPT !.Storage = permute(T.Storage, mapper),
                        !.labels = Pick(T.labels, mapper),
                        !.bonds = Pick(T.bonds, mapper),
                        !.N_inbond = N_inbond])

\* a slip: the test for quantum numbers left out
ReshapeNoSymTest(T, dimer, N_inbond, new_labels) ==
    IF T.is_diag THEN Raise(T)
    ELSE IF T.is_blockform THEN Raise(T)      \* a list has no view()
    ELSE IF Prod(dimer) # Len(T.Storage.data) THEN Raise(T)
    ELSE Done([T EXCEPT !.Storage = reshape(T.Storage, dimer),
                        !.labels = IF new_labels = <<>> THEN arange(Len(dimer))
                                   ELSE new_labels[1],
                        !.bonds = [i \in DOMAIN dimer |-> Bond(dimer[i])],
                        !.N_inbond = N_inbond])

\* a.Reshape(dimer, N_inbond, new_labels); new_labels is None (<<>>) or one
\* list of labels (<<labels>>)
Reshape(T, dimer, N_inbond, new_labels) ==
    IF T.is_diag THEN Raise(T)
    ELSE IF IsSym(T) THEN Raise(T)
    ELSE IF Prod(dimer) # Len(T.Storage.data) THEN Raise(T)
    ELSE Done([T EXCEPT !.Storage = reshape(T.Storage, dimer),
                        !.labels = IF new_labels = <<>> THEN arange(Len(dimer))
                                   ELSE new_labels[1],
                        !.bonds = [i \in DOMAIN dimer |-> Bond(dimer[i])],
                        !.N_inbond = N_inbond])

\* -------------------------------------------------------- CombineBonds
\* x_ind of np.intersect1d(labels, label, return_indices=True): the axes of
\* the common labels, in ascending order of the label values
CommonLabels(labels, label) == Ascending(RangeOf(labels) \cap RangeOf(label))

IntersectIndex(labels, label) ==
    LET same == CommonLabels(labels, label)
    IN  [k \in DOMAIN same |-> FirstIndex(labels, same[k])]

\* np.setdiff1d(np.arange(n), ind)
SetDiffIndex(n, ind) == Ascending((1..n) \ RangeOf(ind))

\* a slip: the axis ind[1] counted as well
InboundAll(ind, N_inbond) ==
    Cardinality({k \in 1..Len(ind) : ind[k] <= N_inbond})

\* how many of the axes ind[2], ind[3], ... are in-bonds
InboundTail(ind, N_inbond) ==
    Cardinality({k \in 2..Len(ind) : ind[k] <= N_inbond})

\* a slip: the bonds combined, the storage left as it was
MergeAxesBondsOnly(T, x_ind, idx_no_combine, front, new_Nin) ==
    LET bond == combineAll(T.bonds[x_ind[1]], Pick(T.bonds, Tail(x_ind)))
    IN  [T EXCEPT
           !.bonds = IF front THEN <<bond>> \o Pick(T.bonds, idx_no_combine)
                     ELSE Pick(T.bonds, idx_no_combine) \o <<bond>>,
           !.labels = IF front
                      THEN <<T.labels[x_ind[1]]>> \o Pick(T.labels, idx_no_combine)
                      ELSE Pick(T.labels, idx_no_combine) \o <<T.labels[x_ind[1]]>>,
           !.N_inbond = new_Nin]

\* the merged axis put first (front) or last
MergeAxes(T, x_ind, idx_no_combine, front, new_Nin) ==
    LET old_shape == T.Storage.shape
        combined_dim == Prod(Pick(old_shape, x_ind))
        no_combine_dims == Pick(old_shape, idx_no_combine)
        bond == combineAll(T.bonds[x_ind[1]], Pick(T.bonds, Tail(x_ind)))
    IN  IF front
        THEN [T EXCEPT
                !.bonds = <<bond>> \o Pick(T.bonds, idx_no_combine),
                !.labels = <<T.labels[x_ind[1]]>> \o Pick(T.labels, idx_no_combine),
                !.Storage = reshape(permute(T.Storage, x_ind \o idx_no_combine),
                                    <<combined_dim>> \o no_combine_dims),
                !.N_inbond = new_Nin]
        ELSE [T EXCEPT
                !.bonds = Pick(T.bonds, idx_no_combine) \o <<bond>>,
                !.labels = Pick(T.labels, idx_no_combine) \o <<T.labels[x_ind[1]]>>,
                !.Storage = reshape(permute(T.Storage, idx_no_combine \o x_ind),
                                    no_combine_dims \o <<combined_dim>>),
                !.N_inbond = new_Nin]

\* new_label is None (<<>>) or one integer (<<v>>); is_inbond is "None",
\* "True" or "False"
CombineBondsInner(T, label, is_inbond, new_label) ==
    IF T.is_diag THEN Raise(T)
    ELSE IF T.is_blockform THEN Raise(T)
    ELSE IF Len(label) > Len(T.labels) THEN Raise(T)
    ELSE IF Len(CommonLabels(T.labels, label)) # Len(label) THEN Raise(T)
    ELSE LET x_ind == IntersectIndex(T.labels, label)
             idx_no_combine == SetDiffIndex(Len(T.labels), x_ind)
         IN  IF \E k \in DOMAIN x_ind : x_ind[k] > Len(T.Storage.shape) THEN Raise(T)
             ELSE IF \E k \in DOMAIN idx_no_combine :
                        idx_no_combine[k] > Len(T.Storage.shape) THEN Raise(T)
             ELSE IF /\ new_label # <<>>
                     /\ \/ new_label[1] \in RangeOf(Pick(T.labels, idx_no_combine))
                        \/ new_label[1] \in RangeOf(Pick(T.labels, Tail(x_ind)))
                  THEN Raise(T)
             ELSE LET T1 == IF new_label = <<>> THEN T
                            ELSE [T EXCEPT !.labels[x_ind[1]] = new_label[1]]
                      Nin == T.N_inbond - InboundTail(x_ind, T.N_inbond)
                  IN  IF x_ind[1] > T.N_inbond
                      THEN IF is_inbond = "True"
                           THEN Done(MergeAxes(T1, x_ind, idx_no_combine, TRUE, Nin + 1))
                           ELSE Done(MergeAxes(T1, x_ind, idx_no_combine, FALSE, Nin))
                      ELSE IF is_inbond = "False"
                           THEN Done(MergeAxes(T1, x_ind, idx_no_combine, FALSE, Nin - 1))
                           ELSE Done(MergeAxes(T1, x_ind, idx_no_combine, TRUE, Nin))

\* a.CombineBonds(labels_to_combine, is_inbond, new_label)
CombineBonds(T, labels_to_combine, is_inbond, new_label) ==
    IF Len(labels_to_combine) < 2 THEN Raise(T)
    ELSE IF T.is_blockform THEN Raise(T)
    ELSE CombineBondsInner(T, labels_to_combine, is_inbond, new_label)

\* ------------------------------------------------------------- Contract
\* bd.qnums.all(): no entry of the quantum numbers is zero
QnumsAll(bd) ==
    \A r \in DOMAIN bd.qnums : \A c \in DOMAIN bd.qnums[r] : bd.qnums[r][c] # 0

\* a slip: the value of a row written to every column of the row
diagRows(buf) ==
    LET n == buf.shape[1]
    IN  Buf(<<n, n>>, [k \in 1..(n * n) |-> buf.data[((k - 1) \div n) + 1]])

\* torch.diag of a 1-D buffer
diag(buf) ==
    LET n == buf.shape[1]
    IN  Buf(<<n, n>>,
            [k \in 1..(n * n) |->
                IF (k - 1) \div n = (k - 1) % n
                THEN buf.data[((k - 1) \div n) + 1] ELSE 0])

\* the storage of an operand as a full buffer
Expanded(T) == IF T.is_diag THEN diag(T.Storage) ELSE T.Storage

\* a.Todense(): a diagonal tensor becomes a full one, a block-form tensor
\* ends the process, any other tensor is left as it is
Todense(T) ==
    IF T.is_diag THEN Done([T EXCEPT !.Storage = diag(T.Storage), !.is_diag = FALSE])
    ELSE IF T.is_blockform THEN Raise(T)
    ELSE Done(T)

\* torch.tensordot refuses axes of different sizes
TensordotRaises(A, B, a_ind, b_ind) ==
    \E k \in DOMAIN a_ind : A.shape[a_ind[k]] # B.shape[b_ind[k]]

\* torch.tensordot(A, B, dims=(a_ind, b_ind)); dims=0 is a_ind = b_ind = <<>>
tensordot(A, B, a_ind, b_ind) ==
    LET afree == SetDiffIndex(Len(A.shape), a_ind)
        bfree == SetDiffIndex(Len(B.shape), b_ind)
        shape == Pick(A.shape, afree) \o Pick(B.shape, bfree)
        cshape == Pick(A.shape, a_ind)
        term(m, cm) ==
            At(A, [i \in DOMAIN A.shape |->
                      IF i \in RangeOf(a_ind) THEN cm[IndexOf(a_ind, i)]
                      ELSE m[IndexOf(afree, i)]])
            * At(B, [i \in DOMAIN B.shape |->
                      IF i \in RangeOf(b_ind) THEN cm[IndexOf(b_ind, i)]
                      ELSE m[Len(afree) + IndexOf(bfree, i)]])
    IN  Buf(shape,
            [k \in 1..Prod(shape) |->
                SumSeq([c \in 1..Prod(cshape) |->
                          term(Unravel(k - 1, shape), Unravel(c - 1, cshape))])])

\* a slip: no sort at all
ArgsortNone(new_io) == [k \in DOMAIN new_io |-> k]

\* np.argsort(new_io): the in-bonds (False) first, each group in its order
\* (arrays of at most 16 entries are sorted by insertion, which is stable)
ArgsortIO(new_io) ==
    SelectSeq([k \in DOMAIN new_io |-> k], LAMBDA k : ~new_io[k])
    \o SelectSeq([k \in DOMAIN new_io |-> k], LAMBDA k : new_io[k])

\* a slip: bonds and labels reordered, the storage not permuted
ContractResultUnpermuted(new_bonds, new_labels, new_io, N_inbond, tmp) ==
    LET mapper == ArgsortIO(new_io)
    IN  [NoTensor EXCEPT !.bonds = Pick(new_bonds, mapper),
                         !.labels = Pick(new_labels, mapper),
                         !.N_inbond = N_inbond,
                         !.Storage = tmp]

\* UniTensor(bonds, labels, N_inbond, torch_tensor=tmp, check=False) on the
\* bonds reordered by mapper
ContractResult(new_bonds, new_labels, new_io, N_inbond, tmp) ==
    LET mapper == ArgsortIO(new_io)
    IN  IF Len(new_bonds) > 0
        THEN [NoTensor EXCEPT !.bonds = Pick(new_bonds, mapper),
                              !.labels = Pick(new_labels, mapper),
                              !.N_inbond = N_inbond,
                              !.Storage = permute(tmp, mapper)]
        ELSE [NoTensor EXCEPT !.N_inbond = N_inbond, !.Storage = tmp]

\* the test the loop of Contract makes on each contracted pair of bonds
QnumsMismatch(A, B) == ~(QnumsAll(A) = QnumsAll(B))

\* a slip: tensors with and without symmetry contracted all the same
MixedSymmetryNever(A, B) == FALSE

\* exactly one of the operands carries quantum numbers
MixedSymmetry(A, B) == IsSym(A) # IsSym(B)

\* Contract(a, b)
Contract(A, B) ==
    IF A.is_blockform \/ B.is_blockform THEN Fail
    ELSE LET a_ind == IntersectIndex(A.labels, B.labels)
             b_ind == IntersectIndex(B.labels, A.labels)
             aind_no_combine == SetDiffIndex(Len(A.labels), a_ind)
             bind_no_combine == SetDiffIndex(Len(B.labels), b_ind)
         IN  IF Len(a_ind) > 0 THEN
                 IF MixedSymmetry(A, B) THEN Fail
                 ELSE IF /\ IsSym(A)
                         /\ \E i \in DOMAIN a_ind :
                               QnumsMismatch(A.bonds[a_ind[i]], B.bonds[b_ind[i]])
                      THEN Fail
                 ELSE IF TensordotRaises(Expanded(A), Expanded(B), a_ind, b_ind)
                      THEN Fail
                 ELSE LET new_io ==
                              [x \in DOMAIN aind_no_combine |->
                                  aind_no_combine[x] > A.N_inbond]
                              \o [x \in DOMAIN bind_no_combine |->
                                  bind_no_combine[x] > B.N_inbond]
                      IN  Return(ContractResult(
                              Pick(A.bonds, aind_no_combine)
                                  \o Pick(B.bonds, bind_no_combine),
                              Pick(A.labels, aind_no_combine)
                                  \o Pick(B.labels, bind_no_combine),
                              new_io,
                              Cardinality({x \in DOMAIN new_io : ~new_io[x]}),
                              tensordot(Expanded(A), Expanded(B), a_ind, b_ind)))
             ELSE LET new_io == [x \in DOMAIN A.bonds |-> x > A.N_inbond]
                                \o [x \in DOMAIN B.bonds |-> x > B.N_inbond]
                  IN  Return(ContractResult(
                          A.bonds \o B.bonds, A.labels \o B.labels, new_io,
                          A.N_inbond + B.N_inbond,
                          tensordot(Expanded(A), Expanded(B), <<>>, <<>>)))

\* ------------------------------------------------------------ the inputs
QnumVectors(n) == [1..n -> QnumValues]

SymBondsOfDim(n, d) == {SymBond(q) : q \in [1..d -> QnumVectors(n)]}

\* the lists of symmetric bonds with the given dimensions and n channels
RECURSIVE SymBondLists(_, _)
SymBondLists(n, dims) ==
    IF dims = <<>> THEN {<<>>}
    ELSE {<<bd>> \o rest : bd \in SymBondsOfDim(n, Head(dims)),
                           rest \in SymBondLists(n, Tail(dims))}

\* the shapes of the tensors: up to MaxRank bonds of dimension up to MaxDim
Shapes == UNION {[1..r -> 1..MaxDim] : r \in 1..MaxRank}

\* the bond lists of the symmetric tensors
SymTensorBonds ==
    UNION {SymBondLists(n, dims) :
             <<n, dims>> \in {x \in (1..MaxNsym) \X Shapes :
                                x[1] * SumSeq(x[2]) <= MaxCells}}

\* a block with the entries v, v+1, v+2, ... in row-major order
Ramp(shape, v) == Buf(shape, [k \in 1..Prod(shape) |-> v + k - 1])

Block(type, buf) ==
    [type |-> type, is_diag |-> FALSE, is_blockform |-> FALSE, Storage |-> buf]

\* the blocks handed to PutBlock for a sector of r rows and c columns: one of
\* each type in the sector's shape, arrays of a wrong shape, a diagonal
\* UniTensor when the sector is square, and a block-form UniTensor
BlockArgs(r, c) ==
    {Block(ty, Ramp(<<r, c>>, v)) :
        ty \in {"ndarray", "Tensor", "UniTensor", "list"}, v \in 1..MaxVal}
    \cup {Block("ndarray", Ramp(sh, 1)) : sh \in {<<r + 1, c>>, <<1, 1>>}}
    \cup {[Block("UniTensor", Ramp(<<n>>, 1)) EXCEPT !.is_diag = TRUE] :
            n \in {r} \cap {c}}
    \cup {[Block("UniTensor", NoBuf) EXCEPT !.is_blockform = TRUE]}

\* a quantum number no combination of bonds carries
AbsentQnum(n) == [k \in 1..n |-> -1]

\* the quantum numbers asked of a symmetric tensor: those of its combined
\* in-bond and out-bond, one that is absent, and one of a wrong length
QnumArgs(T) ==
    IF ~IsSym(T) THEN {<<0>>}
    ELSE (IF GetTotalQnumsRaises(T) THEN {}
          ELSE GetUniqueQnums(cb_inbonds(T)) \cup GetUniqueQnums(cb_outbonds(T)))
         \cup {AbsentQnum(nsym(T.bonds[1])), AbsentQnum(nsym(T.bonds[1]) + 1)}

\* the sectors present on both sides of T
ValidQnums(T) ==
    IF GetTotalQnumsRaises(T) THEN {}
    ELSE GetUniqueQnums(cb_inbonds(T)) \cap GetUniqueQnums(cb_outbonds(T))

\* the calls of PutBlock made on T: every block of BlockArgs on the sectors
\* present on both sides, one array on every other quantum number
PutArgs(T) ==
    UNION {{<<q, blk>> :
              blk \in BlockArgs(Len(QnumIndex(cb_inbonds(T), q)),
                                Len(QnumIndex(cb_outbonds(T), q)))} :
           q \in ValidQnums(T)}
    \cup {<<q, Block("ndarray", Ramp(<<1, 1>>, 1))>> :
            q \in QnumArgs(T) \ ValidQnums(T)}

\* ----------------------------------------------------------- the actions
\* the objects a tensor holds, each named by a number: its Bond objects in
\* order, its labels array and its storage; 0 where there is none
NoRefs == [bonds |-> <<>>, labels |-> 0, Storage |-> 0]
NoMem == [t |-> NoRefs, b |-> NoRefs, res |-> NoRefs]

NoOp  == [name |-> "none"]
NoPut == [made |-> FALSE]

Init ==
    /\ t = NoTensor
    /\ b = NoTensor
    /\ res = NoTensor
    /\ err = FALSE
    /\ op = NoOp
    /\ pre = NoTensor
    /\ lastput = NoPut
    /\ mem = NoMem

Exists(T) == T.bonds # <<>>

\* a = UniTensor(bonds, N_inbond, labels, is_diag=..., is_blockform=...)
Construct(bonds, N_inbond, labels, is_diag, is_blockform) ==
    /\ op = NoOp
    /\ op' = [name |-> "UniTensor", bonds |-> bonds, N_inbond |-> N_inbond,
              labels |-> labels, is_diag |-> is_diag,
              is_blockform |-> is_blockform]
    /\ err' = InitRaises(bonds, N_inbond, labels, is_diag, is_blockform)
    /\ t' = IF err' THEN t
            ELSE UniTensor(bonds, N_inbond, labels, is_diag, is_blockform)
    /\ pre' = t
    /\ UNCHANGED <<mem, b, res, lastput>>

\* a symmetric tensor, dense or block-form, with the default labels
ConstructSym ==
    /\ op = NoOp
    /\ \E bonds \in SymTensorBonds, is_blockform \in BOOLEAN :
         \E N_inbond \in 0..Len(bonds) :
            Construct(bonds, N_inbond, arange(Len(bonds)), FALSE, is_blockform)

\* a.PutBlock(block, *qnum)
DoPutBlock ==
    /\ Exists(t)
    /\ lastput = NoPut
    /\ \E arg \in PutArgs(t) :
         LET qnum  == arg[1]
             block == arg[2]
             r == PutBlock(t, block, qnum)
         IN  /\ op' = [name |-> "PutBlock", block |-> block, qnum |-> qnum]
             /\ err' = r.raised
             /\ t' = r.T
             /\ pre' = t
             /\ lastput' = [made |-> TRUE, block |-> block, qnum |-> qnum,
                            raised |-> r.raised]
             /\ UNCHANGED <<mem, b, res>>

\* res = a.GetBlock(*qnum)
CallGetBlock(qnum) ==
    LET r == GetBlock(t, qnum)
    IN  /\ op' = [name |-> "GetBlock", qnum |-> qnum]
        /\ err' = r.raised
        /\ res' = r.out
        /\ pre' = t
        /\ UNCHANGED <<mem, t, b, lastput>>

\* GetBlock on a tensor as constructed
DoGetBlock ==
    /\ Exists(t)
    /\ lastput = NoPut
    /\ \E qnum \in QnumArgs(t) : CallGetBlock(qnum)

\* GetBlock of the sector the last PutBlock addressed
DoGetBlockBack ==
    /\ Exists(t)
    /\ lastput # NoPut
    /\ op.name = "PutBlock"
    /\ CallGetBlock(lastput.qnum)

\* the shapes of the tensors without symmetry
DenseShapes == {dims \in Shapes : Prod(dims) <= MaxElems}

\* the labels of a tensor of rank r: the r values -1 .. r-2 in every order
LabelValues(r) == (-1)..(r - 2)

LabelSeqs(r) ==
    {l \in [1..r -> LabelValues(r)] : \A i, j \in 1..r : i # j => l[i] # l[j]}

\* a label no tensor of rank r carries
FreshLabel(r) == r - 1

\* a tensor without symmetry, its labels in any numeric order
ConstructDense ==
    /\ op = NoOp
    /\ \E dims \in DenseShapes :
         \E N_inbond \in 0..Len(dims), labels \in LabelSeqs(Len(dims)) :
            Construct([i \in DOMAIN dims |-> Bond(dims[i])], N_inbond, labels,
                      FALSE, FALSE)

\* the number of entries SetElem is to be given for T
NumElem(T) == IF T.is_blockform THEN 1 ELSE Len(T.Storage.data)

\* a.SetElem(elem): the entries 1, 2, 3, ..., or one entry too many
DoSetElem ==
    /\ Exists(t)
    /\ op.name = "UniTensor"
    /\ \E n \in {NumElem(t), NumElem(t) + 1} :
         LET elem == [k \in 1..n |-> k]
             r == SetElem(t, elem)
         IN  /\ op' = [name |-> "SetElem", elem |-> elem]
             /\ err' = r.raised
             /\ t' = r.T
             /\ pre' = t
             /\ UNCHANGED <<mem, b, res, lastput>>

\* the tensor is ready for a structural operation: filled by SetElem, or
\* symmetric, where SetElem does not apply
Settled ==
    /\ ~err
    /\ \/ op.name = "SetElem"
       \/ op.name = "UniTensor" /\ IsSym(t)

\* the sequences that hold every element of the set S once
Perms(S) ==
    {f \in [1..Cardinality(S) -> S] : \A i, j \in DOMAIN f : i # j => f[i] # f[j]}

\* the mappers handed to Permute: by index every permutation of the axes, one
\* axis repeated, and a list one short; by label every permutation of the
\* labels and a list with a label T does not carry
MapperArgs(T) ==
    {<<FALSE, f>> : f \in Perms(1..rank(T))}
    \cup {<<FALSE, [k \in 1..rank(T) |-> 1]>>, <<FALSE, arange(rank(T) - 1)>>}
    \cup {<<TRUE, f>> : f \in Perms(RangeOf(T.labels))}
    \cup {<<TRUE, [k \in 1..rank(T) |-> FreshLabel(rank(T))]>>}

\* a.Permute(mapper, N_inbond, by_label)
DoPermute ==
    /\ Exists(t)
    /\ Settled
    /\ \E arg \in MapperArgs(t), N_inbond \in {0, 1, rank(t)} :
         LET r == Permute(t, arg[2], N_inbond, arg[1])
         IN  /\ op' = [name |-> "Permute", mapper |-> arg[2],
                       N_inbond |-> N_inbond, by_label |-> arg[1]]
             /\ err' = r.raised
             /\ t' = r.T
             /\ pre' = t
             /\ UNCHANGED <<mem, b, res, lastput>>

\* the shapes handed to Reshape: one axis, the axes reversed, and a shape of
\* one entry too many
DimerArgs(T) ==
    IF T.is_blockform THEN {<<1>>}
    ELSE LET n == Len(T.Storage.data)
             sh == T.Storage.shape
         IN  {<<n>>, [k \in DOMAIN sh |-> sh[Len(sh) + 1 - k]], <<n + 1>>}

\* a.Reshape(dimer, N_inbond, new_labels)
DoReshape ==
    /\ Exists(t)
    /\ Settled
    /\ \E dimer \in DimerArgs(t), N_inbond \in 0..1 :
         \E new_labels \in {<<>>, <<[k \in DOMAIN dimer |-> k + MaxRank]>>} :
            LET r == Reshape(t, dimer, N_inbond, new_labels)
            IN  /\ op' = [name |-> "Reshape", dimer |-> dimer,
                          N_inbond |-> N_inbond, new_labels |-> new_labels]
                /\ err' = r.raised
                /\ t' = r.T
                /\ pre' = t
                /\ UNCHANGED <<mem, b, res, lastput>>

\* the lists of labels handed to CombineBonds: every set of labels of T, a
\* list with a label T does not carry, and a list naming one label twice
LabelLists(T) ==
    {Ascending(S) : S \in (SUBSET RangeOf(T.labels)) \ {{}}}
    \cup {<<T.labels[1], FreshLabel(rank(T))>>, <<T.labels[1], T.labels[1]>>}

NewLabels(T) ==
    {<<>>} \cup {<<v>> : v \in RangeOf(T.labels) \cup {FreshLabel(rank(T))}}

\* a.CombineBonds(labels_to_combine, is_inbond, new_label) on a filled tensor
DoCombineBonds ==
    /\ Exists(t)
    /\ Settled
    /\ \E labels_to_combine \in LabelLists(t),
          is_inbond \in {"None", "True", "False"},
          new_label \in NewLabels(t) :
         LET r == CombineBonds(t, labels_to_combine, is_inbond, new_label)
         IN  /\ op' = [name |-> "CombineBonds",
                       labels_to_combine |-> labels_to_combine,
                       is_inbond |-> is_inbond, new_label |-> new_label]
             /\ err' = r.raised
             /\ t' = r.T
             /\ pre' = t
             /\ UNCHANGED <<mem, b, res, lastput>>

\* the shapes of the operands of Contract, each leaving two cells to the other
ContractShapes == {dims \in Shapes : SumSeq(dims) + 2 <= MaxContractCells}

\* the sum of the dimensions of a list of bonds
SumDims(bonds) == SumSeq([i \in DOMAIN bonds |-> bonds[i].dim])

\* the bonds of the operands of Contract: with one symmetry channel or none
OperandBonds ==
    UNION {SymBondLists(1, dims) \cup {[i \in DOMAIN dims |-> Bond(dims[i])]} :
              dims \in ContractShapes}

\* is_diag=True is offered where the constructor accepts it
DiagChoices(bonds, N_inbond) ==
    IF Len(bonds) = 2 /\ N_inbond = 1 /\ bonds[1].dim = bonds[2].dim
    THEN BOOLEAN ELSE {FALSE}

\* a = UniTensor(bonds, N_inbond) with the default labels
ConstructA ==
    /\ op = NoOp
    /\ \E bonds \in OperandBonds :
         \E N_inbond \in 0..Len(bonds) :
            \E is_diag \in DiagChoices(bonds, N_inbond) :
               Construct(bonds, N_inbond, arange(Len(bonds)), is_diag, FALSE)

\* b = UniTensor(bonds, N_inbond, labels), its labels among -1 .. rank-2
ConstructB ==
    /\ op.name = "UniTensor"
    /\ ~err
    /\ ~Exists(b)
    /\ \E bonds \in {x \in OperandBonds :
                        SumDims(x) + SumDims(t.bonds) <= MaxContractCells} :
         \E N_inbond \in 0..Len(bonds), labels \in LabelSeqs(Len(bonds)) :
            \E is_diag \in DiagChoices(bonds, N_inbond) :
               /\ op' = [name |-> "UniTensor", bonds |-> bonds,
                         N_inbond |-> N_inbond, labels |-> labels,
                         is_diag |-> is_diag, is_blockform |-> FALSE]
               /\ err' = InitRaises(bonds, N_inbond, labels, is_diag, FALSE)
               /\ b' = IF err' THEN b
                       ELSE UniTensor(bonds, N_inbond, labels, is_diag, FALSE)
               /\ UNCHANGED <<mem, t, res, pre, lastput>>

\* res = Contract(a, b)
DoContract ==
    /\ Exists(t)
    /\ Exists(b)
    /\ op.name = "UniTensor"
    /\ LET r == Contract(t, b)
       IN  /\ op' = [name |-> "Contract"]
           /\ err' = r.raised
           /\ res' = r.out
           /\ pre' = t
           /\ UNCHANGED <<mem, t, b, lastput>>

\* a = UniTensor(bonds, N_inbond) without symmetry, with the default labels
ConstructDenseA ==
    /\ op = NoOp
    /\ \E dims \in DenseShapes :
         \E N_inbond \in 0..Len(dims) :
            Construct([i \in DOMAIN dims |-> Bond(dims[i])], N_inbond,
                      arange(Len(dims)), FALSE, FALSE)

\* b = UniTensor(bonds, N_inbond, labels) without symmetry, dense or diagonal
ConstructDenseB ==
    /\ op.name = "SetElem"
    /\ ~err
    /\ ~Exists(b)
    /\ \E dims \in {x \in DenseShapes : Len(x) + rank(t) <= MaxResultRank} :
         \E N_inbond \in 0..Len(dims), labels \in LabelSeqs(Len(dims)) :
            \E is_diag \in DiagChoices([i \in DOMAIN dims |-> Bond(dims[i])],
                                       N_inbond) :
               LET bonds == [i \in DOMAIN dims |-> Bond(dims[i])]
               IN  /\ op' = [name |-> "UniTensor(b)", bonds |-> bonds,
                             N_inbond |-> N_inbond, labels |-> labels,
                             is_diag |-> is_diag, is_blockform |-> FALSE]
                   /\ err' = InitRaises(bonds, N_inbond, labels, is_diag, FALSE)
                   /\ b' = IF err' THEN b
                           ELSE UniTensor(bonds, N_inbond, labels, is_diag, FALSE)
                   /\ UNCHANGED <<mem, t, res, pre, lastput>>

\* the entries of the identity matrix, as SetElem takes them for T
IdentityElem(T) ==
    IF T.is_diag THEN [k \in 1..T.bonds[1].dim |-> 1]
    ELSE LET d == T.bonds[1].dim
         IN  [k \in 1..(d * d) |-> IF (k - 1) \div d = (k - 1) % d THEN 1 ELSE 0]

\* the entries given to b: consecutive values above those of a, or the
\* identity when b is a square matrix
ElemsB(T) ==
    {[k \in 1..Len(T.Storage.data) |-> MaxElems + k]}
    \cup (IF rank(T) = 2 /\ T.bonds[1].dim = T.bonds[2].dim
          THEN {IdentityElem(T)} ELSE {})

\* b.SetElem(elem)
DoSetElemB ==
    /\ Exists(b)
    /\ op.name = "UniTensor(b)"
    /\ \E elem \in ElemsB(b) :
         LET r == SetElem(b, elem)
         IN  /\ op' = [name |-> "SetElem(b)", elem |-> elem]
             /\ err' = r.raised
             /\ b' = r.T
             /\ UNCHANGED <<mem, t, res, pre, lastput>>

\* res = Contract(a, b) of two filled tensors
DoContractFilled ==
    /\ op.name = "SetElem(b)"
    /\ ~err
    /\ LET r == Contract(t, b)
       IN  /\ op' = [name |-> "Contract"]
           /\ err' = r.raised
           /\ res' = r.out
           /\ pre' = t
           /\ UNCHANGED <<mem, t, b, lastput>>

\* the bonds given to the constructor: without symmetry or with up to
\* MaxNsym channels
AnyBonds ==
    {Bond(d) : d \in 1..MaxDim}
    \cup UNION {SymBondsOfDim(n, d) : n \in 1..MaxNsym, d \in 1..MaxDim}

\* the cells of a bond: its dimension times its number of channels
Cells(bd) == IF bd.qnums = None THEN bd.dim ELSE bd.dim * nsym(bd)

RECURSIVE AnyBondLists(_, _)
AnyBondLists(r, cells) ==
    IF r = 0 THEN {<<>>}
    ELSE {<<>>} \cup
         {<<bd>> \o rest : bd \in {x \in AnyBonds : Cells(x) <= cells},
                           rest \in AnyBondLists(r - 1, cells - 1)}

\* the labels given with r bonds: the default, one too many, one repeated
AnyLabels(r) ==
    {arange(r), arange(r + 1)} \cup (IF r >= 2 THEN {[k \in 1..r |-> 0]} ELSE {})

\* UniTensor(bonds, N_inbond, labels, is_diag=..., is_blockform=...) on
\* arguments of every kind, the invalid ones included
ConstructAny ==
    /\ op = NoOp
    /\ \E bonds \in {x \in AnyBondLists(MaxRank, MaxInitCells) :
                        SumSeq([i \in DOMAIN x |-> Cells(x[i])]) <= MaxInitCells} :
         \E N_inbond \in (-1)..(Len(bonds) + 1), labels \in AnyLabels(Len(bonds)),
            is_diag \in BOOLEAN, is_blockform \in BOOLEAN :
               Construct(bonds, N_inbond, labels, is_diag, is_blockform)

\* is_blockform=True is offered where the constructor's checks accept it
BlockformChoices(bonds, N_inbond, is_diag) ==
    IF /\ ~is_diag
       /\ bonds[1].qnums # None
       /\ N_inbond \in 1..(Len(bonds) - 1)
    THEN BOOLEAN ELSE {FALSE}

\* a tensor of any storage mode: dense, diagonal or block-form, with or
\* without symmetry
ConstructSparse ==
    /\ op = NoOp
    /\ \E bonds \in OperandBonds :
         \E N_inbond \in 0..Len(bonds) :
            \E is_diag \in DiagChoices(bonds, N_inbond) :
               \E is_blockform \in BlockformChoices(bonds, N_inbond, is_diag) :
                  Construct(bonds, N_inbond, arange(Len(bonds)), is_diag,
                            is_blockform)

\* PutBlock on a tensor of any storage mode
DoPutBlockAny ==
    /\ Exists(t)
    /\ Settled
    /\ \E qnum \in QnumArgs(t), v \in 1..MaxVal :
         LET block == Block("ndarray", Ramp(<<1, 1>>, v))
             r == PutBlock(t, block, qnum)
         IN  /\ op' = [name |-> "PutBlock", block |-> block, qnum |-> qnum]
             /\ err' = r.raised
             /\ t' = r.T
             /\ pre' = t
             /\ UNCHANGED <<mem, b, res, lastput>>

\* GetBlock on a tensor of any storage mode
DoGetBlockAny ==
    /\ Exists(t)
    /\ Settled
    /\ \E qnum \in QnumArgs(t) : CallGetBlock(qnum)

\* the block index: construction and GetBlock
NextBlock == ConstructSym \/ DoGetBlock

SpecBlock == Init /\ [][NextBlock]_vars

\* PutBlock followed by GetBlock
NextPut == ConstructSym \/ DoPutBlock \/ DoGetBlockBack

SpecPut == Init /\ [][NextPut]_vars

\* construction, SetElem and CombineBonds of tensors without symmetry
NextCombine == ConstructDense \/ DoSetElem \/ DoCombineBonds

SpecCombine == Init /\ [][NextCombine]_vars

\* Permute on filled tensors without symmetry
NextPermute == ConstructDense \/ DoSetElem \/ DoPermute

SpecPermute == Init /\ [][NextPermute]_vars

\* every operation on tensors of every storage mode
NextSparse ==
    \/ ConstructSparse
    \/ DoSetElem
    \/ DoPutBlockAny
    \/ DoGetBlockAny
    \/ DoPermute
    \/ DoReshape
    \/ DoCombineBonds

SpecSparse == Init /\ [][NextSparse]_vars

\* the constructor alone, on valid and invalid arguments
NextInit == ConstructAny

SpecInit == Init /\ [][NextInit]_vars

\* two operands and their contraction
NextContract == ConstructA \/ ConstructB \/ DoContract

SpecContract == Init /\ [][NextContract]_vars

\* two filled tensors without symmetry and their contraction
NextContractFilled ==
    ConstructDenseA \/ DoSetElem \/ ConstructDenseB \/ DoSetElemB \/ DoContractFilled

SpecContractFilled == Init /\ [][NextContractFilled]_vars

\* ------------------------------------------------ the block index (C1, C2)
Qnums(cb) == {cb.qnums[r] : r \in 1..Len(cb.qnums)}

\* C1 (conservation law): in every block i of a block-form tensor, every row
\* of BlockMapper_in[i] and every column of BlockMapper_out[i] carries, in the
\* combined in-bond and out-bond of GetTotalQnums, the quantum number
\* BlockQnums[i] in every channel.
C1_ConservationLaw ==
    (Exists(t) /\ t.is_blockform) =>
        \A i \in DOMAIN t.BlockQnums :
            /\ \A k \in DOMAIN t.BlockMapper_in[i] :
                  cb_inbonds(t).qnums[t.BlockMapper_in[i][k]] = t.BlockQnums[i]
            /\ \A k \in DOMAIN t.BlockMapper_out[i] :
                  cb_outbonds(t).qnums[t.BlockMapper_out[i][k]] = t.BlockQnums[i]

\* a block-form tensor of two channels, one of its blocks holding some but
\* not all rows of the combined in-bond
C1_Witness ==
    /\ Exists(t) /\ t.is_blockform
    /\ nsym(t.bonds[1]) = 2
    /\ \E i \in DOMAIN t.BlockQnums :
          /\ Len(t.BlockMapper_in[i]) >= 1
          /\ Len(t.BlockMapper_in[i]) < cb_inbonds(t).dim

\* C2 (sector coverage): the BlockQnums of a block-form tensor are, without
\* repetition, exactly the quantum numbers found both in the combined in-bond
\* and in the combined out-bond, and the index lists of a sector hold every
\* row (column) of that quantum number.
C2_SectorCoverage ==
    (Exists(t) /\ t.is_blockform) =>
        /\ RangeOf(t.BlockQnums) = Qnums(cb_inbonds(t)) \cap Qnums(cb_outbonds(t))
        /\ ~HasDuplicate(t.BlockQnums)
        /\ Len(t.Storage) = Len(t.BlockQnums)
        /\ \A i \in DOMAIN t.BlockQnums :
              /\ RangeOf(t.BlockMapper_in[i]) =
                    {r \in 1..cb_inbonds(t).dim :
                        cb_inbonds(t).qnums[r] = t.BlockQnums[i]}
              /\ RangeOf(t.BlockMapper_out[i]) =
                    {c \in 1..cb_outbonds(t).dim :
                        cb_outbonds(t).qnums[c] = t.BlockQnums[i]}
              /\ t.Storage[i].shape =
                    <<Len(t.BlockMapper_in[i]), Len(t.BlockMapper_out[i])>>

\* a block-form tensor with two sectors, a quantum number of the in side
\* missing on the out side, and a sector of several rows
C2_Witness ==
    /\ Exists(t) /\ t.is_blockform
    /\ Len(t.BlockQnums) = 2
    /\ Qnums(cb_inbonds(t)) \ Qnums(cb_outbonds(t)) # {}
    /\ \E i \in DOMAIN t.BlockQnums : Len(t.BlockMapper_in[i]) > 1

\* --------------------------------------------------- construction (C14, C15)
\* the arguments of the last constructor call are among those the constructor
\* is to refuse
Refused ==
    \/ Len(op.labels) # Len(op.bonds)
    \/ HasDuplicate(op.labels)
    \/ op.N_inbond < 0
    \/ op.N_inbond > Len(op.bonds)
    \/ op.is_diag /\ op.is_blockform
    \/ op.is_diag /\ (\/ Len(op.bonds) # 2
                      \/ op.N_inbond # 1
                      \/ Len(op.bonds) = 2 /\ op.bonds[1].dim # op.bonds[2].dim)
    \/ op.is_blockform /\ (\/ op.N_inbond < 1
                           \/ op.N_inbond > Len(op.bonds) - 1
                           \/ \E i \in DOMAIN op.bonds : op.bonds[i].qnums = None)
    \/ \E i, j \in DOMAIN op.bonds :
          (op.bonds[i].qnums = None) # (op.bonds[j].qnums = None)
    \/ /\ \A i \in DOMAIN op.bonds : op.bonds[i].qnums # None
       /\ \E i, j \in DOMAIN op.bonds : nsym(op.bonds[i]) # nsym(op.bonds[j])

\* the tensor satisfies the negation of every reason for refusal
WellFormed(T) ==
    /\ Len(T.labels) = Len(T.bonds)
    /\ ~HasDuplicate(T.labels)
    /\ T.N_inbond \in 0..Len(T.bonds)
    /\ ~(T.is_diag /\ T.is_blockform)
    /\ T.is_diag => (Len(T.bonds) = 2 /\ T.N_inbond = 1
                     /\ T.bonds[1].dim = T.bonds[2].dim)
    /\ T.is_blockform => (/\ T.N_inbond \in 1..(Len(T.bonds) - 1)
                          /\ \A i \in DOMAIN T.bonds : T.bonds[i].qnums # None)
    /\ \A i, j \in DOMAIN T.bonds :
          (T.bonds[i].qnums = None) = (T.bonds[j].qnums = None)
    /\ (\A i \in DOMAIN T.bonds : T.bonds[i].qnums # None) =>
          \A i, j \in DOMAIN T.bonds : nsym(T.bonds[i]) = nsym(T.bonds[j])

\* C14 (construction validation): the constructor raises and yields no tensor
\* on a wrong label count, duplicate labels, N_inbond outside [0, rank], both
\* sparse flags, is_diag off a square rank-2 one-in-one-out shape,
\* is_blockform with N_inbond outside [1, rank-1] or bonds without symmetry,
\* mixed bonds, or differing nsym; a tensor it returns has none of these.
C14_ConstructionValidation ==
    op.name = "UniTensor" =>
        /\ Refused => (err /\ t = NoTensor)
        /\ ~err => WellFormed(t)

\* refusals for duplicate labels, for mixed bonds and for differing nsym each
\* occur when nothing else is wrong
C14_Witness ==
    /\ op.name = "UniTensor"
    /\ err
    /\ ~op.is_diag /\ ~op.is_blockform
    /\ Len(op.labels) = Len(op.bonds)
    /\ ~HasDuplicate(op.labels)
    /\ op.N_inbond \in 0..Len(op.bonds)
    /\ \A i \in DOMAIN op.bonds : op.bonds[i].qnums # None
    /\ \E i, j \in DOMAIN op.bonds : nsym(op.bonds[i]) # nsym(op.bonds[j])

\* the last call asked for a block-form tensor on arguments that pass the
\* checks of C14
BlockformAsked ==
    /\ op.name = "UniTensor"
    /\ op.is_blockform
    /\ ~Refused

\* the quantum numbers of the two sides of the tensor asked for
AskedIn == Qnums(cb_inbonds(InitFields(op.bonds, op.N_inbond, op.labels, FALSE, TRUE)))

AskedOut == Qnums(cb_outbonds(InitFields(op.bonds, op.N_inbond, op.labels, FALSE, TRUE)))

\* C15 (empty intersection): constructing a block-form tensor raises whenever
\* the combined in-bond and the combined out-bond share no quantum number; a
\* block-form tensor has at least one block and every block has at least one
\* row and one column.
C15_EmptyIntersectionFails ==
    /\ (BlockformAsked /\ AskedIn \cap AskedOut = {}) => (err /\ t = NoTensor)
    /\ (Exists(t) /\ t.is_blockform) =>
          /\ Len(t.BlockQnums) >= 1
          /\ Len(t.Storage) = Len(t.BlockQnums)
          /\ \A i \in DOMAIN t.Storage :
                /\ t.Storage[i].shape[1] >= 1 /\ t.Storage[i].shape[2] >= 1
                /\ Len(t.BlockMapper_in[i]) >= 1 /\ Len(t.BlockMapper_out[i]) >= 1

\* a refusal for want of a common quantum number, on two-channel bonds that
\* agree in one channel
C15_Witness ==
    /\ BlockformAsked
    /\ err
    /\ nsym(op.bonds[1]) = 2
    /\ \E x \in AskedIn, y \in AskedOut : x[1] = y[1]

\* ------------------------------------------------- GetBlock, PutBlock
\* the block is an array, a backend buffer or a UniTensor not in block form,
\* and its buffer has the shape of sector q of T
FitsSector(T, block, q) ==
    /\ block.type \in {"ndarray", "Tensor", "UniTensor"}
    /\ ~block.is_blockform
    /\ block.Storage.shape =
          <<Len(BlockIndex(cb_inbonds(T), q)), Len(BlockIndex(cb_outbonds(T), q))>>

\* C3 (round trip), as claimed: PutBlock(X, q) with q a sector of both sides
\* and X fitting it, followed by GetBlock(q), returns a tensor holding X.
C3_RoundTrip ==
    (/\ op.name = "GetBlock"
     /\ lastput.made
     /\ lastput.qnum \in ValidQnums(t)
     /\ FitsSector(t, lastput.block, lastput.qnum))
    => (/\ ~lastput.raised
        /\ ~err
        /\ res.Storage = lastput.block.Storage)

\* C4: GetBlock(q) on a symmetric tensor, q of the right length and not a
\* quantum number of both the combined in-bond and the combined out-bond,
\* raises and returns no tensor.
C4_GetBlockAbsentFails ==
    (/\ op.name = "GetBlock"
     /\ Len(op.qnum) = nsym(t.bonds[1])
     /\ op.qnum \notin ValidQnums(t))
    => (err /\ res = NoTensor)

\* GetBlock on a dense tensor of two channels, asked for a quantum number
\* that the in side carries and the out side carries in one channel only
C4_Witness ==
    /\ op.name = "GetBlock"
    /\ ~t.is_blockform
    /\ Len(op.qnum) = 2
    /\ ~GetTotalQnumsRaises(t)
    /\ op.qnum \in Qnums(cb_inbonds(t)) \ Qnums(cb_outbonds(t))
    /\ \E c \in 1..cb_outbonds(t).dim : cb_outbonds(t).qnums[c][1] = op.qnum[1]
    /\ err

\* C16 (block of a fresh tensor), as claimed: on a symmetric tensor as
\* constructed, dense or block-form, GetBlock(q) for q present on both sides
\* returns a rank-2 tensor with one in-bond, of shape (rows of the combined
\* in-bond with quantum number q, columns of the combined out-bond with
\* quantum number q), all entries zero.
C16_FreshGetBlock ==
    (/\ op.name = "GetBlock"
     /\ ~lastput.made
     /\ op.qnum \in ValidQnums(t))
    => (/\ ~err
        /\ rank(res) = 2
        /\ res.N_inbond = 1
        /\ res.Storage.shape =
              <<Cardinality({r \in 1..cb_inbonds(t).dim :
                               cb_inbonds(t).qnums[r] = op.qnum}),
                Cardinality({c \in 1..cb_outbonds(t).dim :
                               cb_outbonds(t).qnums[c] = op.qnum})>>
        /\ \A k \in DOMAIN res.Storage.data : res.Storage.data[k] = 0)

\* C6 (no partial mutation), as claimed: a call that raised left the tensor
\* as it was before the call.
C6_NoPartialMutation == err => t = pre

\* ------------------------------------------------------------ Contract
\* the labels the two operands share, and the bond of T that carries label l
SharedLabels == RangeOf(t.labels) \cap RangeOf(b.labels)

BondOf(T, l) == T.bonds[FirstIndex(T.labels, l)]

\* C5 (quantum numbers of contracted bonds), as claimed: Contract of two
\* symmetric tensors sharing a label raises whenever the two bonds under
\* some shared label carry different quantum numbers (here in the weakest
\* sense: different sets of quantum numbers).
C5_ContractQnumMismatchRejected ==
    (op.name = "Contract" /\ IsSym(t) /\ IsSym(b) /\ SharedLabels # {}) =>
        ((\E l \in SharedLabels :
             GetUniqueQnums(BondOf(t, l)) # GetUniqueQnums(BondOf(b, l)))
         => err)

\* the axes that survive Contract(t, b): those of t without a shared label in
\* their order, then those of b, each with its label, bond and side
SurvivingOf(T) ==
    [k \in 1..Len(SelectSeq(T.labels, LAMBDA l : l \notin SharedLabels)) |->
        LET l == SelectSeq(T.labels, LAMBDA x : x \notin SharedLabels)[k]
            i == FirstIndex(T.labels, l)
        IN  [label |-> l, bond |-> T.bonds[i], isout |-> i > T.N_inbond]]

Surviving == SurvivingOf(t) \o SurvivingOf(b)

InFirst(s) ==
    SelectSeq(s, LAMBDA x : ~x.isout) \o SelectSeq(s, LAMBDA x : x.isout)

\* the result carries the surviving axes, in-bonds first, order kept within
\* each side
AxesLaw ==
    /\ res.labels = [k \in DOMAIN Surviving |-> InFirst(Surviving)[k].label]
    /\ res.bonds = [k \in DOMAIN Surviving |-> InFirst(Surviving)[k].bond]
    /\ res.N_inbond = Len(SelectSeq(Surviving, LAMBDA x : ~x.isout))

\* C11 (axes of a contraction): with a common label the result's axes are the
\* uncontracted axes of A in order, then those of B, stably re-sorted so the
\* in-bonds of either origin precede the out-bonds; each keeps its label and
\* bond; N_inbond counts the surviving in-bonds.
C11_ContractAxes ==
    (op.name = "Contract" /\ ~err /\ SharedLabels # {}) => AxesLaw

\* an out-bond of A and an in-bond of B survive next to a contracted pair,
\* so the re-sort moves B's axis in front of A's
C11_Witness ==
    /\ op.name = "Contract" /\ ~err /\ SharedLabels # {}
    /\ Len(Surviving) >= 2
    /\ \E i, j \in DOMAIN Surviving : i < j /\ Surviving[i].isout /\ ~Surviving[j].isout

\* the index into T of the result's multi-index m: axis x of T is the axis of
\* the result carrying the label lbl[x]
IndexInto(T, lbl, m) == [x \in 1..rank(T) |-> m[FirstIndex(res.labels, lbl[x])]]

\* C12 (outer product): without a common label the result has rank
\* rank(A)+rank(B), N_inbond = A.N_inbond + B.N_inbond, the axes of A then B
\* re-sorted in-bonds first, and the entry at (i.., j..) is A[i..] * B[j..].
C12_OuterProduct ==
    (op.name = "Contract" /\ ~err /\ SharedLabels = {}) =>
        /\ rank(res) = rank(t) + rank(b)
        /\ res.N_inbond = t.N_inbond + b.N_inbond
        /\ AxesLaw
        /\ res.Storage.shape = [k \in DOMAIN res.bonds |-> res.bonds[k].dim]
        /\ Len(res.Storage.data) = Prod(res.Storage.shape)
        /\ \A k \in DOMAIN res.Storage.data :
              LET m == Unravel(k - 1, res.Storage.shape)
              IN  res.Storage.data[k] =
                      At(Expanded(t), IndexInto(t, t.labels, m))
                      * At(Expanded(b), IndexInto(b, b.labels, m))

\* two filled tensors with several entries each, the re-sort moving an axis
\* of B in front of an axis of A
C12_Witness ==
    /\ op.name = "Contract" /\ ~err /\ SharedLabels = {}
    /\ Len(t.Storage.data) >= 2 /\ Len(b.Storage.data) >= 2
    /\ \E k \in DOMAIN t.Storage.data : t.Storage.data[k] > 1
    /\ t.N_inbond < rank(t)
    /\ b.N_inbond > 0

\* B is a square matrix without symmetry holding the identity
IsIdentity(T) ==
    /\ rank(T) = 2
    /\ ~IsSym(T)
    /\ T.bonds[1].dim = T.bonds[2].dim
    /\ T.Storage.data = IdentityElem(T)

\* C13 (identity): contracting A with an identity matrix I, dense or stored
\* diagonal, over the one label they share gives the entries of A, the
\* contracted axis of A replaced by the other axis of I.
C13_ContractIdentity ==
    (/\ op.name = "Contract" /\ ~err
     /\ ~IsSym(t) /\ ~t.is_diag
     /\ IsIdentity(b)
     /\ Cardinality(SharedLabels) = 1) =>
        LET l == CHOOSE x \in SharedLabels : TRUE
            other == CHOOSE x \in RangeOf(b.labels) : x # l
            lbl == [x \in 1..rank(t) |->
                       IF t.labels[x] = l THEN other ELSE t.labels[x]]
        IN  /\ RangeOf(res.labels) = RangeOf(lbl)
            /\ Len(res.Storage.data) = Len(t.Storage.data)
            /\ \A k \in DOMAIN res.Storage.data :
                  res.Storage.data[k] =
                      At(t.Storage,
                         IndexInto(t, lbl, Unravel(k - 1, res.Storage.shape)))

\* a diagonal identity of dimension 2 contracted with a tensor of rank >= 2
C13_Witness ==
    /\ op.name = "Contract" /\ ~err
    /\ IsIdentity(b) /\ b.is_diag /\ b.bonds[1].dim = 2
    /\ Cardinality(SharedLabels) = 1
    /\ rank(t) >= 2
    /\ Len(t.Storage.data) >= 4


\* ------------------------------------------------- CombineBonds (C7 - C10)
\* the last call was a CombineBonds that returned
Combined == op.name = "CombineBonds" /\ ~err

\* the axes of pre that the call merged, and the highest of them
MergedAxes == {i \in 1..rank(pre) : pre.labels[i] \in RangeOf(op.labels_to_combine)}

HighestMerged == CHOOSE i \in MergedAxes : \A j \in MergedAxes : j <= i

\* the axes of pre that the call left alone, ascending
KeptAxes == Ascending((1..rank(pre)) \ MergedAxes)

\* s without its element at position p
Without(s, p) == SubSeq(s, 1, p - 1) \o SubSeq(s, p + 1, Len(s))

\* C7 (default placement), as claimed: without is_inbond and new_label the
\* merged axis has the label of the merged bond of highest axis index, and
\* is an in-bond exactly when that bond was one.
C7_DefaultPlacement ==
    (Combined /\ op.is_inbond = "None" /\ op.new_label = <<>>) =>
        \E p \in 1..rank(t) :
            /\ t.labels[p] = pre.labels[HighestMerged]
            /\ (p <= t.N_inbond) <=> (HighestMerged <= pre.N_inbond)

\* C8 (forced placement): with is_inbond given the merged axis is the first
\* axis and an in-bond (True) or the last axis and an out-bond (False); the
\* new N_inbond counts the unmerged in-bonds plus the merged axis when it is
\* an in-bond; the unmerged bonds keep label, bond, side and relative order.
C8_ForcedPlacement ==
    (Combined /\ op.is_inbond # "None") =>
        LET p == IF op.is_inbond = "True" THEN 1 ELSE rank(t)
            keptIn == Cardinality({i \in 1..pre.N_inbond : i \notin MergedAxes})
        IN  /\ (p <= t.N_inbond) <=> (op.is_inbond = "True")
            /\ t.N_inbond = keptIn + (IF op.is_inbond = "True" THEN 1 ELSE 0)
            /\ Without(t.labels, p) = Pick(pre.labels, KeptAxes)
            /\ Without(t.bonds, p) = Pick(pre.bonds, KeptAxes)
            /\ \A k \in DOMAIN KeptAxes :
                  LET q == IF op.is_inbond = "True" THEN k + 1 ELSE k
                  IN  (q <= t.N_inbond) <=> (KeptAxes[k] <= pre.N_inbond)

\* in-bonds forced to the out side and out-bonds forced to the in side, with
\* unmerged bonds on both sides
C8_Witness ==
    /\ Combined
    /\ rank(pre) = 3 /\ rank(t) = 2
    /\ \/ op.is_inbond = "False" /\ pre.N_inbond = 3
       \/ op.is_inbond = "True" /\ pre.N_inbond = 0

\* C9 (shape law): k >= 2 bonds of dimensions d1 .. dk merge into one axis of
\* dimension d1 * ... * dk, the rank drops by k - 1, the unmerged axes keep
\* their dimensions, and the storage has the shape of the new bonds.
C9_ShapeLaw ==
    Combined =>
        /\ rank(t) = rank(pre) - Cardinality(MergedAxes) + 1
        /\ Cardinality(MergedAxes) >= 2
        /\ \E p \in {1, rank(t)} :
              /\ t.bonds[p].dim =
                    Prod([k \in 1..Cardinality(MergedAxes) |->
                            pre.bonds[Ascending(MergedAxes)[k]].dim])
              /\ [k \in 1..(rank(t) - 1) |-> Without(t.bonds, p)[k].dim] =
                    [k \in DOMAIN KeptAxes |-> pre.bonds[KeptAxes[k]].dim]
        /\ t.Storage.shape = [k \in 1..rank(t) |-> t.bonds[k].dim]
        /\ Len(t.Storage.data) = Prod(t.Storage.shape)

\* two bonds of dimension 2 merged next to an unmerged bond
C9_Witness ==
    /\ Combined
    /\ rank(pre) = 3 /\ rank(t) = 2
    /\ \E p \in 1..2 : t.bonds[p].dim = 4
    /\ t.Storage.shape \in {<<4, 1>>, <<1, 4>>}

\* the call names at least two distinct labels of the tensor
ValidCombine ==
    /\ op.name = "CombineBonds"
    /\ Len(op.labels_to_combine) >= 2
    /\ ~HasDuplicate(op.labels_to_combine)
    /\ RangeOf(op.labels_to_combine) \subseteq RangeOf(pre.labels)

\* C10 (new_label), as claimed: the call raises exactly when new_label is
\* the label of a bond that is not merged; otherwise the merged axis carries
\* new_label and the labels of the result are distinct.
C10_NewLabel ==
    (ValidCombine /\ op.new_label # <<>>) =>
        /\ err <=> \E i \in RangeOf(KeptAxes) : pre.labels[i] = op.new_label[1]
        /\ ~err => /\ op.new_label[1] \in RangeOf(t.labels)
                   /\ ~HasDuplicate(t.labels)

\* ---------------------------------------------------------------------
\* Permute

\* f lists every element of the set S once
IsPermOf(f, S) ==
    /\ Len(f) = Cardinality(S)
    /\ RangeOf(f) = S

\* the law of a permutation by index: position k of the tensor now holds
\* what position idx[k] of the tensor before held, entry by entry
FollowsMapper(idx) ==
    /\ rank(t) = rank(pre)
    /\ \A k \in 1..rank(t) :
         /\ t.bonds[k] = pre.bonds[idx[k]]
         /\ t.labels[k] = pre.labels[idx[k]]
         /\ t.Storage.shape[k] = pre.Storage.shape[idx[k]]
    /\ Len(t.Storage.data) = Len(pre.Storage.data)
    /\ \A n \in DOMAIN t.Storage.data :
         LET m == Unravel(n - 1, t.Storage.shape)
         IN  t.Storage.data[n] =
                At(pre.Storage, [i \in 1..rank(pre) |-> m[IndexOf(idx, i)]])

\* C17 (Permute): on a dense tensor, with mapper a permutation of the axis
\* indices, bond, label and storage axis k of the result are bond, label and
\* storage axis mapper[k] of the tensor before, and N_inbond is the argument;
\* with by_label=True and mapper a permutation of the labels the result is
\* that of the by-index Permute with every label replaced by its position,
\* so every label keeps its bond and its storage axis.
C17_PermuteAxes ==
    (op.name = "Permute" /\ ~pre.is_diag /\ ~pre.is_blockform) =>
        /\ (~op.by_label /\ IsPermOf(op.mapper, 1..rank(pre))) =>
              /\ ~err
              /\ t.N_inbond = op.N_inbond
              /\ FollowsMapper(op.mapper)
        /\ (op.by_label /\ IsPermOf(op.mapper, RangeOf(pre.labels))) =>
              LET idx == [k \in DOMAIN op.mapper |->
                             FirstIndex(pre.labels, op.mapper[k])]
              IN  /\ ~err
                  /\ t.N_inbond = op.N_inbond
                  /\ t.labels = op.mapper
                  /\ FollowsMapper(idx)
                  /\ t = Permute(pre, idx, op.N_inbond, FALSE).T
                  /\ \A k \in 1..rank(t) :
                       LET j == FirstIndex(pre.labels, t.labels[k])
                       IN  /\ t.bonds[k] = pre.bonds[j]
                           /\ t.Storage.shape[k] = pre.Storage.shape[j]

\* a rank-3 tensor whose axes differ in dimension, its labels out of order,
\* permuted by label through a cycle of the three axes
C17_Witness ==
    /\ op.name = "Permute"
    /\ ~err
    /\ op.by_label
    /\ rank(pre) = 3
    /\ \E i, j \in 1..3 : pre.Storage.shape[i] # pre.Storage.shape[j]
    /\ pre.labels # arange(3)
    /\ [k \in 1..3 |-> FirstIndex(pre.labels, op.mapper[k])] = <<2, 3, 1>>
    /\ t.Storage.data # pre.Storage.data

\* ---------------------------------------------------------------------
\* PutBlock and GetBlock where blocks do not apply

\* C18 (block access refused), as claimed: on a tensor with is_diag set or
\* without qnums, PutBlock and GetBlock each raise, GetBlock returns no
\* tensor, and the tensor is unchanged.
C18_BlockAccessDisallowed ==
    (/\ op.name \in {"PutBlock", "GetBlock"}
     /\ (pre.is_diag \/ ~IsSym(pre)))
    => (/\ err
        /\ t = pre
        /\ (op.name = "GetBlock" => res = NoTensor))

\* C18 (block access refused), as the code has it: PutBlock raises on a
\* diagonal tensor and on a tensor without qnums and leaves it unchanged;
\* GetBlock raises on a diagonal tensor and returns no tensor; GetBlock on a
\* tensor without qnums that is not diagonal raises nothing and returns the
\* tensor itself, whatever qnum is passed.
C18_BlockAccessRefused ==
    /\ (op.name = "PutBlock" /\ (pre.is_diag \/ ~IsSym(pre))) =>
          (err /\ t = pre)
    /\ (op.name = "GetBlock" /\ pre.is_diag) =>
          (err /\ res = NoTensor /\ t = pre)
    /\ (op.name = "GetBlock" /\ ~pre.is_diag /\ ~IsSym(pre)) =>
          (~err /\ res = pre /\ t = pre)

\* GetBlock on a filled tensor of rank 2 without qnums hands the tensor back
C18_Witness ==
    /\ op.name = "GetBlock"
    /\ ~IsSym(pre)
    /\ ~pre.is_diag
    /\ rank(pre) = 2
    /\ ~err
    /\ res = t
    /\ \E k \in DOMAIN res.Storage.data : res.Storage.data[k] # 0

\* ---------------------------------------------------------------------
\* Structural operations where they do not apply

\* the call just made is one the tensor's storage mode rules out
Disallowed ==
    \/ op.name \in {"Permute", "Reshape", "CombineBonds"} /\ pre.is_diag
    \/ op.name = "Reshape" /\ IsSym(pre)
    \/ op.name \in {"Permute", "CombineBonds"} /\ pre.is_blockform

\* C19 (refused structural operations): Permute, Reshape and CombineBonds on
\* a diagonal tensor, Reshape on a symmetric tensor, and Permute and
\* CombineBonds on a block-form tensor do not complete, and bonds, labels,
\* N_inbond and storage are as before the call.
C19_DisallowedRefused ==
    Disallowed =>
        /\ err
        /\ t.bonds = pre.bonds
        /\ t.labels = pre.labels
        /\ t.N_inbond = pre.N_inbond
        /\ t.Storage = pre.Storage
        /\ t = pre

\* Reshape of a dense symmetric tensor to one axis holding all its entries,
\* a shape the storage would take
C19_Witness ==
    /\ op.name = "Reshape"
    /\ IsSym(pre)
    /\ ~pre.is_diag
    /\ ~pre.is_blockform
    /\ rank(pre) >= 2
    /\ op.dimer = <<Len(pre.Storage.data)>>
    /\ err
    /\ t = pre

\* ---------------------------------------------------------------------
\* Contract of a symmetric with a non-symmetric tensor

\* C20 (mixed symmetry): Contract(a, b) of two tensors that share a label,
\* exactly one of which carries qnums, raises; no result tensor is produced
\* and neither operand is changed by the call.
C20_MixedSymmetryRaises ==
    [][(/\ op'.name = "Contract"
        /\ op.name # "Contract"
        /\ SharedLabels # {}
        /\ IsSym(t) # IsSym(b))
       => (/\ err'
           /\ res' = NoTensor
           /\ t' = t
           /\ b' = b)]_vars

\* a symmetric tensor of rank 2 contracted over a bond of equal dimension
\* with a tensor without qnums, neither of them diagonal or block-form
C20_Witness ==
    /\ op.name = "Contract"
    /\ SharedLabels # {}
    /\ IsSym(t)
    /\ ~IsSym(b)
    /\ rank(t) = 2
    /\ ~t.is_diag /\ ~b.is_diag
    /\ ~t.is_blockform
    /\ \A l \in SharedLabels : BondOf(t, l).dim = BondOf(b, l).dim
    /\ err
    /\ res = NoTensor

\* ---------------------------------------------------------------------
\* Sequences of operations on one tensor

\* the longest sequence of operations followed after construction
MaxSteps == 2

\* the number of operations made on the tensor since its construction
StepOf == IF "step" \in DOMAIN op THEN op.step ELSE 0

\* a label larger than every label of T
NextLabel(T) ==
    LET S == RangeOf(T.labels) \cup {0}
    IN  1 + CHOOSE x \in S : \A y \in S : y <= x

\* b = UniTensor([bond], N_inbond, labels=[l]): the second operand of the
\* sequence, of rank 1, its label one that a carries or one that a lacks
ChainConstructB ==
    /\ op.name = "UniTensor"
    /\ ~err
    /\ ~Exists(b)
    /\ \E bonds \in {x \in OperandBonds : Len(x) = 1} :
         \E N_inbond \in 0..1, l \in {t.labels[1], NextLabel(t)} :
            /\ op' = [name |-> "UniTensor", bonds |-> bonds,
                      N_inbond |-> N_inbond, labels |-> <<l>>,
                      is_diag |-> FALSE, is_blockform |-> FALSE]
            /\ err' = InitRaises(bonds, N_inbond, <<l>>, FALSE, FALSE)
            /\ b' = IF err' THEN b
                    ELSE UniTensor(bonds, N_inbond, <<l>>, FALSE, FALSE)
            /\ UNCHANGED <<mem, t, res, pre, lastput>>

\* the sequence goes on after a call that returned, from a tensor that has
\* bonds and that the constructor's checks would still accept
Following ==
    /\ Exists(t)
    /\ Exists(b)
    /\ ~err
    /\ rank(t) > 0
    /\ WellFormed(t)
    /\ StepOf < MaxSteps

\* the next call of the sequence has acted on the tensor
Chained(name, r) ==
    /\ op' = [name |-> name, step |-> StepOf + 1]
    /\ err' = r.raised
    /\ t' = r.T
    /\ pre' = t
    /\ UNCHANGED <<mem, b, res, lastput>>

\* the sequence s in reverse
Reversed(s) == [k \in DOMAIN s |-> s[Len(s) + 1 - k]]

\* a.SetLabel(newLabel, idx): a new or a present label, on the first bond or
\* past the last
ChainSetLabel ==
    /\ Following
    /\ \E newLabel \in {t.labels[1], NextLabel(t)}, idx \in {1, rank(t) + 1} :
         Chained("SetLabel", SetLabel(t, newLabel, idx))

\* a.SetLabels(newlabels): new labels, one label for every bond, a list one
\* short
ChainSetLabels ==
    /\ Following
    /\ \E newlabels \in {[k \in 1..rank(t) |-> NextLabel(t) + k],
                         [k \in 1..rank(t) |-> NextLabel(t)],
                         [k \in 1..(rank(t) - 1) |-> NextLabel(t) + k]} :
         Chained("SetLabels", SetLabels(t, newlabels))

\* a.Permute(mapper, N_inbond, by_label): the axes reversed, by index or by
\* label, N_inbond in and around [0, rank]
ChainPermute ==
    /\ Following
    /\ \E by_label \in BOOLEAN, N_inbond \in {-1, 0, rank(t), rank(t) + 1} :
         Chained("Permute",
                 Permute(t, IF by_label THEN Reversed(t.labels)
                            ELSE [k \in 1..rank(t) |-> rank(t) + 1 - k],
                         N_inbond, by_label))

\* a.Reshape(dimer, N_inbond, new_labels): to one axis or to a row; the
\* labels left to the default, given new, given all alike, or one short
ChainReshape ==
    /\ Following
    /\ LET n == Len(t.Storage.data)
       IN  \E dimer \in {<<n>>, <<1, n>>}, N_inbond \in {0, Len(t.Storage.shape) + 2} :
              \E new_labels \in {<<>>,
                                 <<[k \in DOMAIN dimer |-> NextLabel(t) + k]>>,
                                 <<[k \in DOMAIN dimer |-> NextLabel(t)]>>,
                                 <<[k \in 1..(Len(dimer) - 1) |-> NextLabel(t) + k]>>} :
                 Chained("Reshape", Reshape(t, dimer, N_inbond, new_labels))

\* a.CombineBonds(labels_to_combine, is_inbond, new_label): the first two
\* bonds or all of them
ChainCombineBonds ==
    /\ Following
    /\ rank(t) >= 2
    /\ \E labels_to_combine \in {Take(t.labels, 2), t.labels},
          is_inbond \in {"None", "True", "False"},
          new_label \in {<<>>, <<NextLabel(t)>>} :
         Chained("CombineBonds",
                 CombineBonds(t, labels_to_combine, is_inbond, new_label))

\* a.PutBlock(block, *qnum) with an array of the shape of the sector
ChainPutBlock ==
    /\ Following
    /\ \E qnum \in QnumArgs(t) :
         LET shape == IF IsSym(t) /\ qnum \in ValidQnums(t)
                      THEN <<Len(QnumIndex(cb_inbonds(t), qnum)),
                             Len(QnumIndex(cb_outbonds(t), qnum))>>
                      ELSE <<1, 1>>
         IN  Chained("PutBlock", PutBlock(t, Block("ndarray", Ramp(shape, 1)), qnum))

\* a.Todense()
ChainTodense ==
    /\ Following
    /\ Chained("Todense", Todense(t))

\* a = Contract(a, b)
ChainContract ==
    /\ Following
    /\ LET r == Contract(t, b)
       IN  /\ op' = [name |-> "Contract", step |-> StepOf + 1]
           /\ err' = r.raised
           /\ res' = r.out
           /\ t' = IF r.raised THEN t ELSE r.out
           /\ pre' = t
           /\ UNCHANGED <<mem, b, lastput>>

\* construction of both operands, then a sequence of operations on the first
NextChain ==
    \/ ConstructA
    \/ ChainConstructB
    \/ ChainSetLabel
    \/ ChainSetLabels
    \/ ChainPermute
    \/ ChainReshape
    \/ ChainCombineBonds
    \/ ChainPutBlock
    \/ ChainTodense
    \/ ChainContract

SpecChain == Init /\ [][NextChain]_vars

\* ---------------------------------------------------------------------
\* Invariants of the tensor over sequences of operations

\* the tensor is the outcome of calls that all returned
Returned == Exists(t) /\ ~err

\* storage, bonds and labels of T agree: as many storage axes as bonds and
\* labels, axis k of the size of bond k; a diagonal tensor keeps one axis of
\* the size of its two bonds
LockStep(T) ==
    IF T.is_diag
    THEN /\ Len(T.bonds) = 2
         /\ Len(T.labels) = 2
         /\ Len(T.Storage.shape) = 1
         /\ T.Storage.shape[1] = T.bonds[1].dim
         /\ T.bonds[1].dim = T.bonds[2].dim
    ELSE /\ Len(T.Storage.shape) = Len(T.bonds)
         /\ Len(T.labels) = Len(T.bonds)
         /\ \A k \in DOMAIN T.bonds : T.Storage.shape[k] = T.bonds[k].dim
         /\ Len(T.Storage.data) = Prod(T.Storage.shape)

\* C21 (lock-step), as claimed: after any sequence of Permute, Reshape,
\* CombineBonds, PutBlock, Todense and Contract calls that returned, the
\* storage has as many axes as the tensor has bonds and labels, and axis k
\* has the size bonds[k].dim; a diagonal tensor has a 1-D storage of length
\* bonds[0].dim = bonds[1].dim.
C21_LockStep ==
    Returned => LockStep(t)

\* C22 (labels), as claimed: after any sequence of SetLabel, SetLabels,
\* Permute, Reshape, CombineBonds and Contract calls that returned, the
\* labels hold no duplicate and there is one label for every bond.
C22_LabelsDistinct ==
    Returned => (~HasDuplicate(t.labels) /\ Len(t.labels) = rank(t))

\* C23 (N_inbond), as claimed: after any sequence of Permute, Reshape,
\* CombineBonds and Contract calls that returned, whatever N_inbond was
\* passed, 0 <= N_inbond <= rank.
C23_NinbondInRange ==
    Returned => (0 <= t.N_inbond /\ t.N_inbond <= rank(t))

\* all bonds of T carry quantum numbers of one common number of channels, or
\* none of them carries any
UniformSymmetry(T) ==
    \/ \A i \in DOMAIN T.bonds : T.bonds[i].qnums = None
    \/ /\ \A i \in DOMAIN T.bonds : T.bonds[i].qnums # None
       /\ \A i, j \in DOMAIN T.bonds : nsym(T.bonds[i]) = nsym(T.bonds[j])

\* C24 (uniform symmetry), as claimed: every tensor reached through Permute,
\* CombineBonds, Reshape and Contract, with or without common labels, has
\* bonds that are all symmetric with one nsym or all non-symmetric.
C24_UniformSymmetry ==
    Returned => UniformSymmetry(t)

\* ---------------------------------------------------------------------
\* Sector lookup on block-form tensors

\* the blocks of T whose quantum number equals q in every channel
BlocksEqual(T, q) == {i \in DOMAIN T.BlockQnums : T.BlockQnums[i] = q}

\* C25 (sector lookup), as claimed: on a block-form tensor of any number of
\* channels, GetBlock(q) and PutBlock(X, q) select block i exactly when
\* BlockQnums[i] equals q in every channel: without such a block they fail,
\* with one GetBlock returns it and PutBlock of an array of its shape
\* replaces it, and neither fails.
C25_SectorLookup ==
    (/\ op.name \in {"GetBlock", "PutBlock"}
     /\ pre.is_blockform
     /\ Len(op.qnum) = nsym(pre.bonds[1]))
    => LET M == BlocksEqual(pre, op.qnum)
       IN  /\ M = {} => err
           /\ (M # {} /\ op.name = "GetBlock") =>
                 (~err /\ \E i \in M : res.Storage = pre.Storage[i])
           /\ (/\ M # {}
               /\ op.name = "PutBlock"
               /\ op.block.type = "ndarray"
               /\ \E i \in M : op.block.Storage.shape = pre.Storage[i].shape) =>
                 (/\ ~err
                  /\ \A i \in DOMAIN t.Storage :
                        t.Storage[i] = IF i \in M THEN op.block.Storage
                                       ELSE pre.Storage[i])

\* ---------------------------------------------------------------------
\* Normalisation of the bonds of a block-form tensor

\* how often the vector v occurs in the sequence s
Count(s, v) == Cardinality({k \in DOMAIN s : s[k] = v})

\* s and u hold the same vectors the same number of times
SameRows(s, u) ==
    /\ Len(s) = Len(u)
    /\ \A v \in RangeOf(s) \cup RangeOf(u) : Count(s, v) = Count(u, v)

\* the order on vectors with the last channel most significant
LexLessLastFirst(x, y) ==
    \E k \in 1..Len(x) : x[k] < y[k] /\ \A j \in (k + 1)..Len(x) : x[j] = y[j]

\* the bond bd with its quantum numbers in every order
Reordered(bd) == {SymBond(Pick(bd.qnums, p)) : p \in Perms(1..bd.dim)}

\* the lists of bonds that differ from bonds only in the order of the
\* quantum numbers within each bond
RECURSIVE Reorderings(_)
Reorderings(bonds) ==
    IF bonds = <<>> THEN {<<>>}
    ELSE {<<bd>> \o rest : bd \in Reordered(Head(bonds)),
                           rest \in Reorderings(Tail(bonds))}

\* the constructor has just built a block-form tensor
BlockformBuilt == op.name = "UniTensor" /\ ~err /\ t.is_blockform

\* a block-form tensor built from bonds in any order of their quantum
\* numbers has the BlockQnums and the block shapes of t
Canonical ==
    \A x \in Reorderings(op.bonds) :
       LET u == UniTensor(x, op.N_inbond, op.labels, FALSE, TRUE)
       IN  /\ u.BlockQnums = t.BlockQnums
           /\ [i \in DOMAIN u.Storage |-> u.Storage[i].shape]
                 = [i \in DOMAIN t.Storage |-> t.Storage[i].shape]

\* C26 (normalisation), as claimed: the qnums of every bond of a block-form
\* tensor are those it was given, in descending lexicographic order with the
\* last channel most significant and ties broken by earlier channels; bonds
\* that differ only in the order of their qnums give the same BlockQnums and
\* block shapes.
C26_SortedLastChannelFirst ==
    BlockformBuilt =>
        /\ \A i \in DOMAIN t.bonds :
              /\ SameRows(t.bonds[i].qnums, op.bonds[i].qnums)
              /\ \A r, r2 \in DOMAIN t.bonds[i].qnums :
                    r < r2 => ~LexLessLastFirst(t.bonds[i].qnums[r],
                                                t.bonds[i].qnums[r2])
        /\ Canonical

\* C26 (normalisation), as the code has it: the qnums of every bond of a
\* block-form tensor are those it was given, in descending lexicographic
\* order with the first channel most significant and ties broken by later
\* channels; bonds that differ only in the order of their qnums give the
\* same BlockQnums and block shapes.
C26_SortedFirstChannelFirst ==
    BlockformBuilt =>
        /\ \A i \in DOMAIN t.bonds :
              /\ SameRows(t.bonds[i].qnums, op.bonds[i].qnums)
              /\ \A r, r2 \in DOMAIN t.bonds[i].qnums :
                    r < r2 => ~LexLess(t.bonds[i].qnums[r], t.bonds[i].qnums[r2])
        /\ Canonical

\* a two-channel bond given as (0,1), (1,0) and kept as (1,0), (0,1): the
\* order changed, and the two channels disagree on it
C26_Witness ==
    /\ BlockformBuilt
    /\ \E i \in DOMAIN t.bonds :
          /\ op.bonds[i].qnums = <<<<0, 1>>, <<1, 0>>>>
          /\ t.bonds[i].qnums = <<<<1, 0>>, <<0, 1>>>>

\* ---------------------------------------------------------------------
\* PutBlock: what it leaves alone

\* the shape of the sector q of T: its rows on the in side, its columns on
\* the out side
SectorShape(T, q) ==
    <<Len(QnumIndex(cb_inbonds(T), q)), Len(QnumIndex(cb_outbonds(T), q))>>

\* a second a.PutBlock(block, *qnum), after one that returned: an array of
\* the shape of the sector, its entries above those of the first block
DoPutBlockAgain ==
    /\ op.name = "PutBlock"
    /\ ~err
    /\ "again" \notin DOMAIN op
    /\ \E qnum \in ValidQnums(t) :
         LET block == Block("ndarray",
                            Ramp(SectorShape(t, qnum), MaxVal + MaxCells))
             r == PutBlock(t, block, qnum)
         IN  /\ op' = [name |-> "PutBlock", block |-> block, qnum |-> qnum,
                       again |-> TRUE]
             /\ err' = r.raised
             /\ t' = r.T
             /\ pre' = t
             /\ UNCHANGED <<mem, b, res, lastput>>

\* PutBlock, and PutBlock once more
NextPutTwice == ConstructSym \/ DoPutBlock \/ DoPutBlockAgain

SpecPutTwice == Init /\ [][NextPutTwice]_vars

\* position k of the dense storage of T lies in sector q: its row, over the
\* combined in-bond, and its column, over the combined out-bond, both carry q
InSector(T, q, k) ==
    LET C == Prod(SubSeq(T.Storage.shape, T.N_inbond + 1, rank(T)))
        r == ((k - 1) \div C) + 1
        c == ((k - 1) % C) + 1
    IN  cb_inbonds(T).qnums[r] = q /\ cb_outbonds(T).qnums[c] = q

\* C27 (frame of PutBlock): a PutBlock(X, q) that returned has changed only
\* the data of sector q: on a block-form tensor every other block is as
\* before, on a dense tensor every entry outside the rows and columns of q is
\* as before; bonds, labels, N_inbond, the shape of the storage, BlockQnums
\* and both block mappers are as before.
C27_PutBlockFrame ==
    (op.name = "PutBlock" /\ ~err) =>
        /\ t.bonds = pre.bonds
        /\ t.labels = pre.labels
        /\ t.N_inbond = pre.N_inbond
        /\ t.BlockQnums = pre.BlockQnums
        /\ t.BlockMapper_in = pre.BlockMapper_in
        /\ t.BlockMapper_out = pre.BlockMapper_out
        /\ t.is_blockform = pre.is_blockform
        /\ IF pre.is_blockform
           THEN /\ Len(t.Storage) = Len(pre.Storage)
                /\ \A s \in DOMAIN pre.Storage :
                      /\ t.Storage[s].shape = pre.Storage[s].shape
                      /\ pre.BlockQnums[s] # op.qnum =>
                            t.Storage[s] = pre.Storage[s]
           ELSE /\ t.Storage.shape = pre.Storage.shape
                /\ Len(t.Storage.data) = Len(pre.Storage.data)
                /\ \A k \in DOMAIN pre.Storage.data :
                      ~InSector(pre, op.qnum, k) =>
                         t.Storage.data[k] = pre.Storage.data[k]

\* a second PutBlock on a dense tensor that holds the entries of a first one
\* outside the sector now written
C27_Witness ==
    /\ op.name = "PutBlock"
    /\ ~err
    /\ "again" \in DOMAIN op
    /\ ~pre.is_blockform
    /\ op.qnum # lastput.qnum
    /\ \E k \in DOMAIN pre.Storage.data :
          ~InSector(pre, op.qnum, k) /\ pre.Storage.data[k] # 0
    /\ t.Storage # pre.Storage

\* ---------------------------------------------------------- arithmetic
\* x + y, x - y, x * y, x / y (where the quotient is whole), x ** y
Apply(sym, x, y) ==
    CASE sym = "+" -> x + y
      [] sym = "-" -> x - y
      [] sym = "*" -> x * y
      [] sym = "/" -> x \div y
      [] sym = "**" -> x ^ y

\* A sym B for two buffers of one shape, entry by entry
Elementwise(sym, A, B) ==
    Buf(A.shape, [k \in DOMAIN A.data |-> Apply(sym, A.data[k], B.data[k])])

\* A sym c for a buffer and a number
WithScalar(sym, A, c) ==
    Buf(A.shape, [k \in DOMAIN A.data |-> Apply(sym, A.data[k], c)])

\* the storage of self sym other, other a UniTensor, neither in block form
BinaryStorage(sym, A, B) ==
    IF A.is_diag = B.is_diag THEN Elementwise(sym, A.Storage, B.Storage)
    ELSE IF A.is_diag THEN Elementwise(sym, diag(A.Storage), B.Storage)
    ELSE Elementwise(sym, A.Storage, diag(B.Storage))

\* self + other, self - other, self * other, self / other: other a UniTensor
Binary(sym, A, B) ==
    IF A.is_blockform THEN
        IF ~B.is_blockform THEN Fail
        ELSE IF Len(A.Storage) # Len(B.Storage) THEN Fail
        ELSE IF GetTotalQnumsRaises(A) \/ GetTotalQnumsRaises(B) THEN Fail
        ELSE IF cb_inbonds(A) # cb_inbonds(B) \/ cb_outbonds(A) # cb_outbonds(B)
             THEN Fail
        ELSE Return([A EXCEPT !.Storage =
                        [s \in DOMAIN A.Storage |->
                            Elementwise(sym, A.Storage[s], B.Storage[s])]])
    ELSE IF B.is_blockform THEN Fail
    ELSE Return([A EXCEPT !.Storage = BinaryStorage(sym, A, B),
                          !.is_diag = A.is_diag /\ B.is_diag])

\* self + other, ..., self ** other: other a number
BinaryScalar(sym, A, c) ==
    IF A.is_blockform
    THEN Return([A EXCEPT !.Storage =
                    [s \in DOMAIN A.Storage |-> WithScalar(sym, A.Storage[s], c)]])
    ELSE Return([A EXCEPT !.Storage = WithScalar(sym, A.Storage, c)])

\* the storage self gets from self sym= other when self is diagonal and other
\* is not: `-=` adds here, as `+=` does
InPlaceMixed(sym, A, B) ==
    Elementwise(IF sym = "-" THEN "+" ELSE sym, diag(A.Storage), B.Storage)

\* self += other, self -= other, self *= other: other a UniTensor
InPlace(sym, A, B) ==
    IF A.is_blockform THEN
        IF ~B.is_blockform THEN Raise(A)
        ELSE IF Len(B.Storage) < Len(A.Storage)      \* other.Storage[s] runs out
             THEN Raise([A EXCEPT !.Storage =
                           [s \in DOMAIN A.Storage |->
                               IF s <= Len(B.Storage)
                               THEN Elementwise(sym, A.Storage[s], B.Storage[s])
                               ELSE A.Storage[s]]])
        ELSE Done([A EXCEPT !.Storage =
                      [s \in DOMAIN A.Storage |->
                          Elementwise(sym, A.Storage[s], B.Storage[s])]])
    ELSE IF B.is_blockform THEN Raise(A)
    ELSE IF A.is_diag = B.is_diag
         THEN Done([A EXCEPT !.Storage = Elementwise(sym, A.Storage, B.Storage)])
    ELSE IF A.is_diag
         THEN Done([A EXCEPT !.Storage = InPlaceMixed(sym, A, B),
                             !.is_diag = FALSE])
    ELSE Done([A EXCEPT !.Storage = Elementwise(sym, A.Storage, diag(B.Storage))])

\* a[key] = value: key one index for each axis of the storage
SetItem(T, key, value) ==
    IF T.is_blockform THEN Raise(T)
    ELSE Done([T EXCEPT !.Storage.data[Ravel(key, T.Storage.shape) + 1] = value])

\* ------------------------------------- in-place and binary arithmetic
\* the operators that have an in-place form
InPlaceSyms == {"+", "-", "*"}

\* a and b are matrices of one shape
SameMatrixShape(A, B) ==
    /\ rank(A) = 2
    /\ rank(B) = 2
    /\ \A k \in 1..2 : A.bonds[k].dim = B.bonds[k].dim

\* a = UniTensor([Bond(r), Bond(c)], N_inbond=1), dense or diagonal
ConstructMatrixA ==
    /\ op = NoOp
    /\ \E dims \in {x \in DenseShapes : Len(x) = 2} :
         \E is_diag \in DiagChoices([i \in DOMAIN dims |-> Bond(dims[i])], 1) :
            Construct([i \in DOMAIN dims |-> Bond(dims[i])], 1, arange(2),
                      is_diag, FALSE)

\* res = a + b, a - b or a * b
DoBinary ==
    /\ op.name = "SetElem(b)"
    /\ ~err
    /\ SameMatrixShape(t, b)
    /\ \E sym \in InPlaceSyms :
         LET r == Binary(sym, t, b)
         IN  /\ op' = [name |-> "binary", sym |-> sym]
             /\ err' = r.raised
             /\ res' = r.out
             /\ pre' = t
             /\ UNCHANGED <<mem, t, b, lastput>>

\* a += b, a -= b or a *= b, after the binary operator gave its value
DoInPlace ==
    /\ op.name = "binary"
    /\ ~err
    /\ \E sym \in InPlaceSyms :
         LET r == InPlace(sym, t, b)
         IN  /\ op' = [name |-> "inplace", sym |-> sym, binary |-> op.sym]
             /\ err' = r.raised
             /\ t' = r.T
             /\ pre' = t
             /\ UNCHANGED <<mem, b, res, lastput>>

NextArith ==
    ConstructMatrixA \/ DoSetElem \/ ConstructDenseB \/ DoSetElemB
    \/ DoBinary \/ DoInPlace

SpecArith == Init /\ [][NextArith]_vars

\* C29 (in-place arithmetic agrees with binary arithmetic), as claimed:
\* for non-block-form a and b of one matrix shape, in every combination of
\* diagonal and dense storage, after a -= b (a += b, a *= b) the tensor a
\* stands for the same matrix, and has the same is_diag flag, as the value
\* a - b (a + b, a * b) computed beforehand; a diagonal tensor is read as the
\* matrix that is zero off the diagonal.
C29_InPlaceAgreesWithBinary ==
    (op.name = "inplace" /\ op.sym = op.binary /\ ~err)
    => (/\ Expanded(t) = Expanded(res)
        /\ t.is_diag = res.is_diag)

\* ----------------------------------------- the objects the tensors hold
\* the numbers naming the objects a tensor holds
Held(r) == RangeOf(r.bonds) \cup {r.labels, r.Storage}

MaxOf(S) == CHOOSE x \in S : \A y \in S : y <= x

\* the highest number naming an object in use
Top(m) == MaxOf(Held(m.t) \cup Held(m.b) \cup Held(m.res))

\* a slip: the objects themselves kept
sameobjects(refs, base) == refs

\* copy.deepcopy(x): every object of x made anew, numbered above base
deepcopy(refs, base) == [k \in DOMAIN refs |-> base + k]

\* the objects of UniTensor(bonds, N_inbond, labels, torch_tensor=...): the
\* Bond objects deep-copied, the labels in a new array, the storage as given
UniTensorRefs(bonds, labels, torch_tensor, m) ==
    LET base == MaxOf(RangeOf(bonds) \cup {labels, torch_tensor, Top(m)})
    IN  [bonds |-> deepcopy(bonds, base),
         labels |-> base + Len(bonds) + 1,
         Storage |-> torch_tensor]

\* the objects of UniTensor(bonds, N_inbond, labels) on n Bond objects and a
\* list of labels the caller made; the storage comes from torch.zeros
NewRefs(n, m) ==
    LET refs == UniTensorRefs([k \in 1..n |-> Top(m) + k], Top(m) + n + 1, 0, m)
    IN  [refs EXCEPT !.Storage = refs.labels + 1]

\* the tensor held in the variable X
Obj(X) == CASE X = "t" -> t [] X = "b" -> b [] X = "res" -> res

\* what a call wrote into objects that existed before it: the labels array
\* and the storage after the write (<<>> when not written) and the Bond
\* object changed, with its new value (0 when none)
NoWrite == [labels |-> <<>>, Storage |-> <<>>, bond |-> 0, bondval |-> None]

\* the tensor in Y after a call on X wrote w: Y shows the write in every
\* object it holds in common with X
Seen(Y, X, w) ==
    LET V == Obj(Y)
    IN  [V EXCEPT
           !.labels = IF w.labels # <<>> /\ mem[Y].labels = mem[X].labels
                      THEN w.labels[1] ELSE V.labels,
           !.Storage = IF w.Storage # <<>> /\ mem[Y].Storage = mem[X].Storage
                       THEN w.Storage[1] ELSE V.Storage,
           !.bonds = [j \in DOMAIN V.bonds |->
                        IF mem[Y].bonds[j] = w.bond THEN w.bondval
                        ELSE V.bonds[j]]]

\* a call on the tensor in X that returned r = [raised, T], wrote w and left
\* X holding the objects refs
Mutates(X, call, r, w, refs) ==
    /\ op' = call
    /\ err' = r.raised
    /\ t' = IF X = "t" THEN r.T ELSE IF r.raised THEN t ELSE Seen("t", X, w)
    /\ b' = IF X = "b" THEN r.T ELSE IF r.raised THEN b ELSE Seen("b", X, w)
    /\ res' = IF X = "res" THEN r.T
              ELSE IF r.raised THEN res ELSE Seen("res", X, w)
    /\ mem' = IF r.raised THEN mem ELSE [mem EXCEPT ![X] = refs]
    /\ pre' = Obj(X)
    /\ UNCHANGED lastput

\* a call that returned the tensor r.out holding the objects refs
Produces(call, r, refs) ==
    /\ op' = call
    /\ err' = r.raised
    /\ res' = r.out
    /\ mem' = IF r.raised THEN mem ELSE [mem EXCEPT !.res = refs]
    /\ pre' = t
    /\ UNCHANGED <<t, b, lastput>>

\* the Bond objects, in the order of the labels of the tensor T2 that came
\* from T by reordering or merging bonds; a label T does not carry marks the
\* merged bond, the object at position x0 of T
BondRefsAfter(T, refs, T2, x0) ==
    [k \in DOMAIN T2.bonds |->
        IF T2.labels[k] \in RangeOf(T.labels)
        THEN refs.bonds[IndexOf(T.labels, T2.labels[k])]
        ELSE refs.bonds[x0]]

\* the Bond objects Contract(a, b) hands to the constructor: deep copies of
\* the bonds of a and b that are left, in the order of the result
ContractBondRefs(A, B, out, m) ==
    deepcopy([k \in DOMAIN out.bonds |->
                 IF out.labels[k] \in RangeOf(A.labels)
                 THEN m.t.bonds[IndexOf(A.labels, out.labels[k])]
                 ELSE m.b.bonds[IndexOf(B.labels, out.labels[k])]],
             Top(m) + 2)

MaxOwnCells == 2    \* largest sum of the dimensions of an operand whose objects are followed

\* a = UniTensor(bonds, N_inbond): dense, diagonal or block-form, with or
\* without symmetry, with the default labels
OwnConstructA ==
    /\ op = NoOp
    /\ \E bonds \in {x \in OperandBonds : SumDims(x) <= MaxOwnCells} :
         \E N_inbond \in 0..Len(bonds) :
            \E is_diag \in DiagChoices(bonds, N_inbond) :
               \E is_blockform \in BlockformChoices(bonds, N_inbond, is_diag) :
                  /\ op' = [name |-> "UniTensor", bonds |-> bonds,
                            N_inbond |-> N_inbond,
                            labels |-> arange(Len(bonds)),
                            is_diag |-> is_diag, is_blockform |-> is_blockform]
                  /\ err' = InitRaises(bonds, N_inbond, arange(Len(bonds)),
                                       is_diag, is_blockform)
                  /\ t' = IF err' THEN t
                          ELSE UniTensor(bonds, N_inbond, arange(Len(bonds)),
                                         is_diag, is_blockform)
                  /\ mem' = IF err' THEN mem
                            ELSE [mem EXCEPT !.t = NewRefs(Len(bonds), mem)]
                  /\ pre' = t
                  /\ UNCHANGED <<b, res, lastput>>

\* b = UniTensor(bonds, N_inbond, labels) on the bonds a was given or on
\* the first of them, with the first labels of a or with labels a does not
\* carry
OwnConstructB ==
    /\ op.name = "UniTensor"
    /\ ~err
    /\ ~Exists(b)
    /\ \E bonds \in {op.bonds, Take(op.bonds, 1)} :
         \E N_inbond \in {0, op.N_inbond} \cap 0..Len(bonds),
            labels \in {arange(Len(bonds)),
                        [k \in 1..Len(bonds) |-> rank(t) + k - 1]} :
            \E is_diag \in DiagChoices(bonds, N_inbond) :
               \E is_blockform \in BlockformChoices(bonds, N_inbond, is_diag) :
                  /\ op' = [name |-> "UniTensor(b)", bonds |-> bonds,
                            N_inbond |-> N_inbond, labels |-> labels,
                            is_diag |-> is_diag, is_blockform |-> is_blockform]
                  /\ err' = InitRaises(bonds, N_inbond, labels, is_diag,
                                       is_blockform)
                  /\ b' = IF err' THEN b
                          ELSE UniTensor(bonds, N_inbond, labels, is_diag,
                                         is_blockform)
                  /\ mem' = IF err' THEN mem
                            ELSE [mem EXCEPT !.b = NewRefs(Len(bonds), mem)]
                  /\ UNCHANGED <<t, res, pre, lastput>>

\* the operands are built and nothing was computed from them yet
Built ==
    /\ op.name \in {"UniTensor(b)", "SetElem"}
    /\ ~err
    /\ Exists(t)
    /\ Exists(b)

\* X.SetElem([1, 2, 3, ...]) on an operand, a before b: the storage is a new
\* buffer
OwnSetElem ==
    /\ Built
    /\ \E X \in {"t", "b"} :
         /\ op.name = "SetElem" => (op.on = "t" /\ X = "b")
         /\ ~Obj(X).is_blockform
         /\ LET elem == [k \in 1..Len(Obj(X).Storage.data) |-> k]
            IN  Mutates(X, [name |-> "SetElem", on |-> X, elem |-> elem],
                        SetElem(Obj(X), elem), NoWrite,
                        [mem[X] EXCEPT !.Storage = Top(mem) + 1])

\* res = Contract(a, b)
OwnContract ==
    /\ Built
    /\ LET r == Contract(t, b)
       IN  Produces([name |-> "Contract"], r,
                    UniTensorRefs(ContractBondRefs(t, b, r.out, mem),
                                  Top(mem) + 1, Top(mem) + 2, mem))

\* res = a.GetBlock(*qnum): a itself when a has no symmetry, else a new
\* tensor on two new bonds, new labels and a copy of the entries
OwnGetBlock ==
    /\ Built
    /\ \E qnum \in QnumArgs(t) :
         Produces([name |-> "GetBlock", qnum |-> qnum], GetBlock(t, qnum),
                  IF ~IsSym(t) THEN mem.t
                  ELSE UniTensorRefs(<<Top(mem) + 1, Top(mem) + 2>>,
                                     Top(mem) + 3, Top(mem) + 4, mem))

\* the entries of A and B can be combined one by one, and every quotient is
\* a whole number
Combinable(sym, A, B) ==
    /\ A.is_blockform = B.is_blockform
    /\ IF A.is_blockform
       THEN /\ A.bonds = B.bonds
            /\ A.N_inbond = B.N_inbond
       ELSE /\ Expanded(A).shape = Expanded(B).shape
            /\ A.is_diag = B.is_diag => A.Storage.shape = B.Storage.shape
    /\ sym = "/" =>
         /\ ~A.is_blockform
         /\ LET x == IF A.is_diag = B.is_diag THEN A.Storage ELSE Expanded(A)
                y == IF A.is_diag = B.is_diag THEN B.Storage ELSE Expanded(B)
            IN  \A k \in DOMAIN y.data :
                   y.data[k] > 0 /\ x.data[k] % y.data[k] = 0

\* res = a + b, a - b, a * b or a / b
OwnBinary ==
    /\ Built
    /\ \E sym \in {"+", "-", "*", "/"} :
         /\ Combinable(sym, t, b)
         /\ Produces([name |-> "binary", sym |-> sym], Binary(sym, t, b),
                     UniTensorRefs(mem.t.bonds, mem.t.labels, Top(mem) + 1, mem))

\* res = a + c, a - c, a * c, a / c or a ** c for a number c
OwnBinaryScalar ==
    /\ Built
    /\ \E sym \in {"+", "-", "*", "/", "**"} :
         /\ sym = "/" =>
              /\ ~t.is_blockform
              /\ \A k \in DOMAIN t.Storage.data : t.Storage.data[k] % 2 = 0
         /\ Produces([name |-> "binary", sym |-> sym, other |-> 2],
                     BinaryScalar(sym, t, 2),
                     UniTensorRefs(mem.t.bonds, mem.t.labels, Top(mem) + 1, mem))

\* a result was returned and no call was made on it or on an operand since
Produced ==
    /\ op.name \in {"Contract", "GetBlock", "binary"}
    /\ ~err

\* the tensors a call is made on: those that exist and keep to what the
\* constructor checks
Targets == {X \in {"t", "b", "res"} : Exists(Obj(X)) /\ WellFormed(Obj(X))}

\* a label none of the three tensors carries
UnusedLabel ==
    1 + MaxOf(RangeOf(t.labels) \cup RangeOf(b.labels) \cup RangeOf(res.labels))

\* the record of a call made on X after the call `made`
CallOn(name, X) == [name |-> name, on |-> X, made |-> op]

\* X.SetLabel(newLabel, 0): the label is written into the labels array
OwnSetLabel ==
    /\ Produced
    /\ \E X \in Targets :
         LET r == SetLabel(Obj(X), UnusedLabel, 1)
         IN  Mutates(X, CallOn("SetLabel", X), r,
                     [NoWrite EXCEPT !.labels = <<r.T.labels>>], mem[X])

\* X.Permute(mapper, N_inbond) with the axes reversed: the Bond objects in a
\* new array, the labels in a new array, the storage a view of the old one
OwnPermute ==
    /\ Produced
    /\ \E X \in Targets :
         LET T == Obj(X)
             r == Permute(T, [k \in 1..rank(T) |-> rank(T) + 1 - k], 0, FALSE)
         IN  Mutates(X, CallOn("Permute", X), r, NoWrite,
                     [bonds |-> BondRefsAfter(T, mem[X], r.T, 1),
                      labels |-> Top(mem) + 1,
                      Storage |-> mem[X].Storage])

\* X.CombineBonds(the first two labels, new_label=...): the first of the
\* bonds is merged in place, a new label is written into the labels array,
\* then bonds, labels and storage are made anew
OwnCombineBonds ==
    /\ Produced
    /\ \E X \in {Y \in Targets : rank(Obj(Y)) >= 2} :
         \E new_label \in {<<>>, <<UnusedLabel>>} :
            LET T == Obj(X)
                r == CombineBonds(T, Take(T.labels, 2), "None", new_label)
                x0 == IntersectIndex(T.labels, Take(T.labels, 2))[1]
                kept == IF new_label = <<>> THEN T.labels[x0] ELSE new_label[1]
            IN  Mutates(X, CallOn("CombineBonds", X), r,
                        IF r.raised THEN NoWrite
                        ELSE [labels |-> IF new_label = <<>> THEN <<>>
                                         ELSE <<[T.labels EXCEPT ![x0] = kept]>>,
                              Storage |-> <<>>,
                              bond |-> mem[X].bonds[x0],
                              bondval |-> r.T.bonds[IndexOf(r.T.labels, kept)]],
                        [bonds |-> BondRefsAfter(T, mem[X], r.T, x0),
                         labels |-> Top(mem) + 1,
                         Storage |-> Top(mem) + 2])

\* X.PutBlock(block, *qnum) with an array of the shape of the sector: the
\* entries are written into the storage
OwnPutBlock ==
    /\ Produced
    /\ \E X \in Targets :
         \E qnum \in QnumArgs(Obj(X)) :
            LET T == Obj(X)
                shape == IF IsSym(T) /\ qnum \in ValidQnums(T)
                         THEN SectorShape(T, qnum) ELSE <<1, 1>>
                r == PutBlock(T, Block("ndarray", Ramp(shape, MaxElems + 1)), qnum)
            IN  Mutates(X, CallOn("PutBlock", X), r,
                        [NoWrite EXCEPT !.Storage = <<r.T.Storage>>], mem[X])

\* X[0, ..., 0] = value: the entry is written into the storage
OwnSetItem ==
    /\ Produced
    /\ \E X \in Targets :
         LET T == Obj(X)
             key == IF T.is_blockform THEN <<1>>
                    ELSE [k \in DOMAIN T.Storage.shape |-> 1]
             r == SetItem(T, key, MaxElems + 1)
         IN  Mutates(X, CallOn("setitem", X), r,
                     [NoWrite EXCEPT !.Storage = <<r.T.Storage>>], mem[X])

NextOwn ==
    OwnConstructA \/ OwnConstructB \/ OwnSetElem
    \/ OwnContract \/ OwnGetBlock \/ OwnBinary \/ OwnBinaryScalar
    \/ OwnSetLabel \/ OwnPermute \/ OwnCombineBonds \/ OwnPutBlock \/ OwnSetItem

SpecOwn == Init /\ [][NextOwn]_vars

\* the calls of C28 that return a tensor: Contract, the binary operators,
\* and GetBlock on a tensor a with symmetry
Independent(call, a) ==
    \/ call.name \in {"Contract", "binary"}
    \/ call.name = "GetBlock" /\ IsSym(a)

\* the calls made on a tensor after a result was returned
InPlaceCalls == {"SetLabel", "Permute", "CombineBonds", "PutBlock", "setitem"}

\* C28 (independence of results): Contract(a, b), GetBlock(q) on a symmetric
\* tensor and the binary arithmetic operators leave a and b as they were (a
\* diagonal operand stays diagonal) and return a tensor that holds none of
\* the objects of a or b; a later SetLabel, Permute, CombineBonds, PutBlock or
\* element assignment on the result leaves the bonds, quantum numbers, labels
\* and entries of a and b as they were, and one on a or b leaves the result
\* as it was.
C28_Independence ==
    [][/\ (op'.name \in {"Contract", "GetBlock", "binary"}
              /\ ~err' /\ Independent(op', t))
          => /\ t' = t
             /\ b' = b
             /\ (Held(mem'.res) \cap (Held(mem'.t) \cup Held(mem'.b))) \ {0} = {}
       /\ (Produced /\ Independent(op, t) /\ op'.name \in InPlaceCalls)
          => /\ op'.on = "res" => (t' = t /\ b' = b)
             /\ op'.on # "res" => res' = res]_vars

\* C28 witness: CombineBonds with a new label returned on the result of
\* Contract(a, b), which took its bonds from a and b.
C28_Witness ==
    /\ op.name = "CombineBonds"
    /\ op.on = "res"
    /\ ~err
    /\ op.made.name = "Contract"
    /\ res # pre
    /\ res.labels[1] \notin RangeOf(pre.labels)
    /\ Exists(t)
    /\ Exists(b)

\* ------------------------------------------------- linalg: Svd and Qr
MaxLabel == 2      \* largest absolute value of a label given to Svd and Qr

\* tmp of Svd and Qr: np.argwhere(a.labels < 0) lists the positions, counted
\* from 0, of the negative labels; tmp is the least of them, or 0 when no
\* label is negative
InternalBase(labels) ==
    LET neg == {k \in DOMAIN labels : labels[k] < 0}
    IN  IF neg = {} THEN 0
        ELSE (CHOOSE k \in neg : \A j \in neg : k <= j) - 1

\* a returned factor: its bonds, labels and in-bond count (the entries are
\* those torch.svd and torch.qr give)
Factor(r, c, labels, is_diag) ==
    [bonds |-> <<Bond(r), Bond(c)>>, labels |-> labels, N_inbond |-> 1,
     is_diag |-> is_diag]

NoFactors == [raised |-> TRUE]

\* u, s, v = Svd(a); symmetry, N_inbond and is_diag are read as linalg.py
\* names them (is_symm, N_rowrank, is_diag)
Svd(T) ==
    IF IsSym(T) THEN NoFactors
    ELSE IF T.is_diag THEN NoFactors
    ELSE IF T.N_inbond # 1 THEN NoFactors
    ELSE LET m == T.Storage.shape[1]
             n == T.Storage.shape[2]
             k == IF m < n THEN m ELSE n
             tmp == InternalBase(T.labels)
         IN  [raised |-> FALSE,
              u |-> Factor(m, k, <<T.labels[1], tmp - 1>>, FALSE),
              s |-> Factor(k, k, <<tmp - 1, tmp - 2>>, TRUE),
              v |-> Factor(k, n, <<tmp - 2, T.labels[2]>>, FALSE)]

\* q, r = Qr(a)
Qr(T) ==
    IF IsSym(T) THEN NoFactors
    ELSE IF T.is_diag THEN NoFactors
    ELSE IF T.N_inbond # 1 THEN NoFactors
    ELSE LET m == T.Storage.shape[1]
             n == T.Storage.shape[2]
             k == IF m < n THEN m ELSE n
             tmp == InternalBase(T.labels)
         IN  [raised |-> FALSE,
              q |-> Factor(m, k, <<T.labels[1], tmp - 1>>, FALSE),
              r |-> Factor(k, n, <<tmp - 1, T.labels[2]>>, FALSE)]

\* a = UniTensor([Bond(r), Bond(c)], N_inbond, labels=[l0, l1]): a dense
\* matrix without symmetry, its two labels distinct, of any sign and order
ConstructLabelled ==
    /\ op = NoOp
    /\ \E dims \in {x \in DenseShapes : Len(x) = 2} :
         \E N_inbond \in 0..2, l0, l1 \in (-MaxLabel)..MaxLabel :
            /\ l0 # l1
            /\ Construct([i \in DOMAIN dims |-> Bond(dims[i])], N_inbond,
                         <<l0, l1>>, FALSE, FALSE)

\* res = Svd(a)
DoSvd ==
    /\ op.name = "UniTensor"
    /\ ~err
    /\ op' = [name |-> "Svd"]
    /\ err' = Svd(t).raised
    /\ res' = Svd(t)
    /\ pre' = t
    /\ UNCHANGED <<mem, t, b, lastput>>

\* res = Qr(a)
DoQr ==
    /\ op.name = "UniTensor"
    /\ ~err
    /\ op' = [name |-> "Qr"]
    /\ err' = Qr(t).raised
    /\ res' = Qr(t)
    /\ pre' = t
    /\ UNCHANGED <<mem, t, b, lastput>>

NextLinalg == ConstructLabelled \/ DoSvd \/ DoQr

SpecLinalg == Init /\ [][NextLinalg]_vars

============================================================================
